---- MODULE Spec2Model ----
(***************************************************************************)
(* Model of the plan sanitizer of the AI Tech Repairer backend             *)
(* (src/app.py).  Python values are modelled as tagged records, Python     *)
(* strings as sequences of one-character strings, Python dicts as          *)
(* insertion-ordered sequences of key/value pairs with unique keys.        *)
(***************************************************************************)
EXTENDS Integers, Sequences, FiniteSets, TLC

VARIABLES raw, issue, pc, result, sessions, reqs, emails, now

\* the variables of the sanitizer calls
sanVars == <<raw, issue, pc, result>>

\* the variables of the server
srvVars == <<sessions, reqs, emails, now>>

vars == <<raw, issue, pc, result, sessions, reqs, emails, now>>

----------------------------------------------------------------------------
(* Python values.  Every value is a record of the same shape; the field    *)
(* named by the tag t carries the payload, the other fields are neutral.   *)

VStr(x) == [t |-> "str", s |-> x, n |-> 0, b |-> FALSE, l |-> <<>>, d |-> <<>>]

VInt(x) == [t |-> "int", s |-> <<>>, n |-> x, b |-> FALSE, l |-> <<>>, d |-> <<>>]

VBool(x) == [t |-> "bool", s |-> <<>>, n |-> 0, b |-> x, l |-> <<>>, d |-> <<>>]

VNone == [t |-> "NoneType", s |-> <<>>, n |-> 0, b |-> FALSE, l |-> <<>>, d |-> <<>>]

\* a float that json.loads builds from NaN, Infinity or -Infinity; s holds its str()
VFloat(x) == [t |-> "float", s |-> x, n |-> 0, b |-> FALSE, l |-> <<>>, d |-> <<>>]

VList(x) == [t |-> "list", s |-> <<>>, n |-> 0, b |-> FALSE, l |-> x, d |-> <<>>]

\* x is a sequence of [k |-> key string, v |-> value], keys pairwise different
VDict(x) == [t |-> "dict", s |-> <<>>, n |-> 0, b |-> FALSE, l |-> <<>>, d |-> x]

KV(key, val) == [k |-> key, v |-> val]

----------------------------------------------------------------------------
(* String literals of sanitize_plan.                                        *)


K_error == <<"e", "r", "r", "o", "r">>

K_software == <<"s", "o", "f", "t", "w", "a", "r", "e">>

K_issue == <<"i", "s", "s", "u", "e">>

K_summary == <<"s", "u", "m", "m", "a", "r", "y">>

K_steps == <<"s", "t", "e", "p", "s">>

K_estimated_time_minutes ==
    << "e", "s", "t", "i", "m", "a", "t", "e", "d", "_", "t", "i", "m", "e",
       "_", "m", "i", "n", "u", "t", "e", "s" >>

K_needs_reboot ==
    << "n", "e", "e", "d", "s", "_", "r", "e", "b", "o", "o", "t" >>

K_description == <<"d", "e", "s", "c", "r", "i", "p", "t", "i", "o", "n">>

K_command == <<"c", "o", "m", "m", "a", "n", "d">>

K_requires_sudo ==
    << "r", "e", "q", "u", "i", "r", "e", "s", "_", "s", "u", "d", "o" >>

S_Unknown == <<"U", "n", "k", "n", "o", "w", "n">>

S_FailedToParse ==
    << "F", "a", "i", "l", "e", "d", " ", "t", "o", " ", "p", "a", "r", "s",
       "e", " ", "A", "I", " ", "r", "e", "s", "p", "o", "n", "s", "e" >>

S_InvalidFormat ==
    << "A", "I", " ", "r", "e", "t", "u", "r", "n", "e", "d", " ", "i", "n",
       "v", "a", "l", "i", "d", " ", "f", "o", "r", "m", "a", "t" >>

S_EchoInvalid ==
    << "e", "c", "h", "o", " ", "I", "n", "v", "a", "l", "i", "d", " ", "r",
       "e", "s", "p", "o", "n", "s", "e" >>

S_ServiceError ==
    << "A", "I", " ", "s", "e", "r", "v", "i", "c", "e", " ", "e", "r", "r",
       "o", "r" >>

S_EchoAIError ==
    << "e", "c", "h", "o", " ", "A", "I", " ", "e", "r", "r", "o", "r", " ",
       "o", "c", "c", "u", "r", "r", "e", "d" >>

S_RepairSteps ==
    << "R", "e", "p", "a", "i", "r", " ", "s", "t", "e", "p", "s" >>

S_NoStepsGenerated ==
    << "N", "o", " ", "r", "e", "p", "a", "i", "r", " ", "s", "t", "e", "p",
       "s", " ", "g", "e", "n", "e", "r", "a", "t", "e", "d" >>

S_EchoNoSteps ==
    << "e", "c", "h", "o", " ", "N", "o", " ", "s", "t", "e", "p", "s", " ",
       "a", "v", "a", "i", "l", "a", "b", "l", "e" >>

S_ManualStep == <<"M", "a", "n", "u", "a", "l", " ", "s", "t", "e", "p">>

S_NoDescription ==
    << "N", "o", " ", "d", "e", "s", "c", "r", "i", "p", "t", "i", "o", "n" >>

S_Echo == <<"e", "c", "h", "o", " ">>

----------------------------------------------------------------------------
(* Program constants of sanitize_plan.                                      *)

\* raw_steps[:6]
MAX_STEPS == 6

\* str(step.get("description", ...))[:300]
MAX_DESCRIPTION == 300

\* command[:500]
MAX_COMMAND == 500

\* step.get('description', 'Manual step')[:50]
MAX_ECHO == 50

\* "estimated_time_minutes": 5 of the two terminal branches
TERMINAL_MINUTES == 5

\* plan.get("estimated_time_minutes", 10)
DEFAULT_MINUTES == 10

----------------------------------------------------------------------------
(* Python built-ins used by sanitize_plan.                                  *)

MinOf(S) == CHOOSE x \in S : \A y \in S : x <= y

MaxOf(S) == CHOOSE x \in S : \A y \in S : x >= y

\* seq[:k]
Take(seq, k) == SubSeq(seq, 1, IF k < Len(seq) THEN k ELSE Len(seq))

\* str.isspace() of one character, over the characters the model uses
IsSpace(c) == c \in {" ", "\t", "\n", "\r"}

\* str.strip()
strip(x) ==
    LET keep == {i \in 1..Len(x) : ~IsSpace(x[i])}
    IN  IF keep = {} THEN <<>> ELSE SubSeq(x, MinOf(keep), MaxOf(keep))

\* needle in hay, for two strings
IsSubstring(needle, hay) ==
    \E i \in 0..(Len(hay) - Len(needle)) :
        SubSeq(hay, i + 1, i + Len(needle)) = needle

DigitChar(k) == <<"0", "1", "2", "3", "4", "5", "6", "7", "8", "9">>[k + 1]

RECURSIVE NatStr(_)
NatStr(k) == IF k < 10 THEN <<DigitChar(k)>>
             ELSE NatStr(k \div 10) \o <<DigitChar(k % 10)>>

\* str(int)
IntStr(k) == IF k < 0 THEN <<"-">> \o NatStr(0 - k) ELSE NatStr(k)

\* repr(str): single quotes unless the text has ' and no " (no character of
\* the model needs a backslash escape)
StrRepr(x) ==
    LET hasS == \E i \in 1..Len(x) : x[i] = "'"
        hasD == \E i \in 1..Len(x) : x[i] = "\""
        q    == IF hasS /\ ~hasD THEN "\"" ELSE "'"
    IN  <<q>> \o x \o <<q>>

RECURSIVE PyRepr(_), JoinRepr(_, _), JoinItems(_, _)
\* repr(v)
PyRepr(v) ==
    CASE v.t = "str"      -> StrRepr(v.s)
      [] v.t = "int"      -> IntStr(v.n)
      [] v.t = "bool"     -> IF v.b THEN <<"T", "r", "u", "e">>
                                    ELSE <<"F", "a", "l", "s", "e">>
      [] v.t = "NoneType" -> <<"N", "o", "n", "e">>
      [] v.t = "float"    -> v.s
      [] v.t = "list"     -> <<"[">> \o JoinRepr(v.l, 1) \o <<"]">>
      [] v.t = "dict"     -> <<"{">> \o JoinItems(v.d, 1) \o <<"}">>

\* ", ".join(repr(e) for e in l[i:])
JoinRepr(l, i) ==
    IF i > Len(l) THEN <<>>
    ELSE PyRepr(l[i]) \o (IF i < Len(l) THEN <<",", " ">> ELSE <<>>)
         \o JoinRepr(l, i + 1)

\* ", ".join(repr(k) + ": " + repr(v) for the items d[i:])
JoinItems(d, i) ==
    IF i > Len(d) THEN <<>>
    ELSE StrRepr(d[i].k) \o <<":", " ">> \o PyRepr(d[i].v)
         \o (IF i < Len(d) THEN <<",", " ">> ELSE <<>>)
         \o JoinItems(d, i + 1)

\* str(v)
PyStr(v) == IF v.t = "str" THEN v.s ELSE PyRepr(v)

\* bool(v)
Truthy(v) ==
    CASE v.t = "str"      -> v.s # <<>>
      [] v.t = "int"      -> v.n # 0
      [] v.t = "bool"     -> v.b
      [] v.t = "NoneType" -> FALSE
      [] v.t = "float"    -> TRUE
      [] v.t = "list"     -> v.l # <<>>
      [] v.t = "dict"     -> v.d # <<>>

\* key in d, for a dict d
HasKey(d, key) == \E i \in 1..Len(d.d) : d.d[i].k = key

\* d.get(key, default), for a dict d
DictGet(d, key, default) ==
    IF HasKey(d, key)
    THEN d.d[CHOOSE i \in 1..Len(d.d) : d.d[i].k = key].v
    ELSE default

\* d[key] = val on the item sequence of a dict
DictPut(items, key, val) ==
    IF \E i \in 1..Len(items) : items[i].k = key
    THEN [i \in 1..Len(items) |->
            IF items[i].k = key THEN KV(key, val) ELSE items[i]]
    ELSE Append(items, KV(key, val))

----------------------------------------------------------------------------
(* json.loads, as Python's json.decoder implements it, for texts without    *)
(* backslash escapes and without fraction or exponent parts (no text of    *)
(* the model has them).  With lenient = TRUE the scanner accepts the       *)
(* constants NaN, Infinity and -Infinity, as json.loads does by default;   *)
(* with lenient = FALSE it is the JSON grammar of RFC 8259.                 *)

\* a scan result: ok, the value, and the index after it
Scanned(val, next) == [ok |-> TRUE, v |-> val, pos |-> next]

\* the scanner raised (StopIteration or JSONDecodeError)
ScanFail == [ok |-> FALSE, v |-> VNone, pos |-> 0]

\* s[i:i+1], "" past the end
CharAt(x, i) == IF i >= 1 /\ i <= Len(x) THEN x[i] ELSE ""

\* s[i:i+len(lit)] == lit
StartsAt(x, i, lit) ==
    i + Len(lit) - 1 <= Len(x) /\ SubSeq(x, i, i + Len(lit) - 1) = lit

IsJsonWs(c) == c \in {" ", "\t", "\n", "\r"}

IsDigit(c) == c \in {"0", "1", "2", "3", "4", "5", "6", "7", "8", "9"}

DigitVal(c) ==
    CASE c = "0" -> 0 [] c = "1" -> 1 [] c = "2" -> 2 [] c = "3" -> 3
      [] c = "4" -> 4 [] c = "5" -> 5 [] c = "6" -> 6 [] c = "7" -> 7
      [] c = "8" -> 8 [] c = "9" -> 9

RECURSIVE DigitsVal(_)
DigitsVal(x) ==
    IF x = <<>> THEN 0
    ELSE 10 * DigitsVal(SubSeq(x, 1, Len(x) - 1)) + DigitVal(x[Len(x)])

\* WHITESPACE.match(s, i).end()
SkipWs(x, i) ==
    LET stop == {j \in i..Len(x) : ~IsJsonWs(x[j])}
    IN  IF stop = {} THEN Len(x) + 1 ELSE MinOf(stop)

\* scanstring(s, i) in strict mode; i is the index after the opening quote
ScanString(x, i) ==
    LET quotes == {j \in i..Len(x) : x[j] = "\""}
    IN  IF quotes = {} THEN ScanFail
        ELSE LET j    == MinOf(quotes)
                 text == SubSeq(x, i, j - 1)
             IN  IF \E m \in 1..Len(text) : text[m] \in {"\t", "\n", "\r"}
                 THEN ScanFail
                 ELSE Scanned(VStr(text), j + 1)

\* NUMBER_RE.match(s, i): -?(0|[1-9][0-9]*)
MatchNumber(x, i) ==
    LET neg   == CharAt(x, i) = "-"
        st    == IF neg THEN i + 1 ELSE i
        stop  == {j \in st..Len(x) : ~IsDigit(x[j])}
        after == IF stop = {} THEN Len(x) + 1 ELSE MinOf(stop)
        fin   == IF CharAt(x, st) = "0" THEN st + 1 ELSE after
        mag   == DigitsVal(SubSeq(x, st, fin - 1))
    IN  IF ~IsDigit(CharAt(x, st)) THEN ScanFail
        ELSE Scanned(VInt(IF neg THEN 0 - mag ELSE mag), fin)

L_null == <<"n", "u", "l", "l">>

L_true == <<"t", "r", "u", "e">>

L_false == <<"f", "a", "l", "s", "e">>

L_NaN == <<"N", "a", "N">>

L_Infinity == <<"I", "n", "f", "i", "n", "i", "t", "y">>

L_NegInfinity == <<"-", "I", "n", "f", "i", "n", "i", "t", "y">>

RECURSIVE scan_once(_, _, _), JSONArray(_, _, _, _), JSONObject(_, _, _, _)
\* _scan_once(string, idx)
scan_once(x, i, lenient) ==
    LET c == CharAt(x, i)
    IN  CASE c = ""   -> ScanFail
          [] c = "\"" -> ScanString(x, i + 1)
          [] c = "{"  ->
               LET j == SkipWs(x, i + 1)
               IN  IF CharAt(x, j) = "}" THEN Scanned(VDict(<<>>), j + 1)
                   ELSE IF CharAt(x, j) # "\"" THEN ScanFail
                   ELSE JSONObject(x, j + 1, <<>>, lenient)
          [] c = "["  ->
               LET j == SkipWs(x, i + 1)
               IN  IF CharAt(x, j) = "]" THEN Scanned(VList(<<>>), j + 1)
                   ELSE JSONArray(x, j, <<>>, lenient)
          [] c = "n" /\ StartsAt(x, i, L_null)  -> Scanned(VNone, i + 4)
          [] c = "t" /\ StartsAt(x, i, L_true)  -> Scanned(VBool(TRUE), i + 4)
          [] c = "f" /\ StartsAt(x, i, L_false) -> Scanned(VBool(FALSE), i + 5)
          [] OTHER ->
               IF MatchNumber(x, i).ok THEN MatchNumber(x, i)
               ELSE IF lenient /\ c = "N" /\ StartsAt(x, i, L_NaN)
               THEN Scanned(VFloat(<<"n", "a", "n">>), i + 3)
               ELSE IF lenient /\ c = "I" /\ StartsAt(x, i, L_Infinity)
               THEN Scanned(VFloat(<<"i", "n", "f">>), i + 8)
               ELSE IF lenient /\ c = "-" /\ StartsAt(x, i, L_NegInfinity)
               THEN Scanned(VFloat(<<"-", "i", "n", "f">>), i + 9)
               ELSE ScanFail

\* the loop of JSONArray: i is the index of the next value, acc the values so far
JSONArray(x, i, acc, lenient) ==
    LET r == scan_once(x, i, lenient)
    IN  IF ~r.ok THEN ScanFail
        ELSE LET j == SkipWs(x, r.pos)
                 c == CharAt(x, j)
             IN  IF c = "]" THEN Scanned(VList(Append(acc, r.v)), j + 1)
                 ELSE IF c # "," THEN ScanFail
                 ELSE JSONArray(x, SkipWs(x, j + 1), Append(acc, r.v), lenient)

\* the loop of JSONObject: i is the index after the opening quote of the next
\* key, acc the items so far (a repeated key keeps its place, the last value wins)
JSONObject(x, i, acc, lenient) ==
    LET key == ScanString(x, i)
    IN  IF ~key.ok THEN ScanFail
        ELSE LET colon == SkipWs(x, key.pos)
             IN  IF CharAt(x, colon) # ":" THEN ScanFail
                 ELSE LET r == scan_once(x, SkipWs(x, colon + 1), lenient)
                      IN  IF ~r.ok THEN ScanFail
                          ELSE LET j     == SkipWs(x, r.pos)
                                   c     == CharAt(x, j)
                                   items == DictPut(acc, key.v.s, r.v)
                                   nxt   == SkipWs(x, j + 1)
                               IN  IF c = "}" THEN Scanned(VDict(items), j + 1)
                                   ELSE IF c # "," THEN ScanFail
                                   ELSE IF CharAt(x, nxt) # "\"" THEN ScanFail
                                   ELSE JSONObject(x, nxt + 1, items, lenient)

\* JSONDecoder.decode: one value between optional whitespace, nothing after it
decode(x, lenient) ==
    LET r == scan_once(x, SkipWs(x, 1), lenient)
    IN  IF r.ok /\ SkipWs(x, r.pos) = Len(x) + 1 THEN r ELSE ScanFail

\* json.loads(s); ok = FALSE stands for a raised JSONDecodeError
json_loads(x) == decode(x, TRUE)

\* s is a JSON text (RFC 8259)
IsValidJson(x) == decode(x, FALSE).ok

----------------------------------------------------------------------------
(* sanitize_plan.  A call either returns a value or raises.                 *)

Returned(val) == [kind |-> "return", value |-> val]

\* an exception leaves the function (TypeError, AttributeError or KeyError)
Raised == [kind |-> "raise", value |-> VNone]

\* no call has been made yet
NotCalled == [kind |-> "none", value |-> VNone]

\* {"description": ..., "command": ..., "requires_sudo": ...}
StepDict(description, command, requires_sudo) ==
    VDict(<< KV(K_description, description),
             KV(K_command, command),
             KV(K_requires_sudo, requires_sudo) >>)

\* the dict literal that every branch of sanitize_plan builds
PlanDict(software, iss, summary, steps, minutes, reboot) ==
    VDict(<< KV(K_software, software),
             KV(K_issue, iss),
             KV(K_summary, summary),
             KV(K_steps, steps),
             KV(K_estimated_time_minutes, minutes),
             KV(K_needs_reboot, reboot) >>)

\* the plan returned when json.loads fails
ParseFailurePlan(iss) ==
    PlanDict(VStr(S_Unknown), iss, VStr(S_FailedToParse),
             VList(<<StepDict(VStr(S_InvalidFormat), VStr(S_EchoInvalid),
                              VBool(FALSE))>>),
             VInt(TERMINAL_MINUTES), VBool(FALSE))

\* the plan returned when the payload carries "error"
ServiceErrorPlan(err, iss) ==
    PlanDict(VStr(S_Unknown), iss, VStr(S_ServiceError),
             VList(<<StepDict(err, VStr(S_EchoAIError), VBool(FALSE))>>),
             VInt(TERMINAL_MINUTES), VBool(FALSE))

\* the single step of a plan without raw steps
NoStepsStep ==
    StepDict(VStr(S_NoStepsGenerated), VStr(S_EchoNoSteps), VBool(FALSE))

\* "error" in plan: "yes", "no", or "raise" when plan is not a container
ErrorIn(plan) ==
    CASE plan.t = "dict" -> IF HasKey(plan, K_error) THEN "yes" ELSE "no"
      [] plan.t = "list" ->
           IF \E i \in 1..Len(plan.l) : plan.l[i] = VStr(K_error)
           THEN "yes" ELSE "no"
      [] plan.t = "str"  -> IF IsSubstring(K_error, plan.s) THEN "yes" ELSE "no"
      [] OTHER           -> "raise"

\* x[:50] of the f-string: a string or a list can be sliced, nothing else can
EchoSlice(x) ==
    CASE x.t = "str"  -> Returned(VStr(Take(x.s, MAX_ECHO)))
      [] x.t = "list" -> Returned(VList(Take(x.l, MAX_ECHO)))
      [] OTHER        -> Raised

\* sanitize_step without the echo placeholder for an empty command
sanitize_step_NoPlaceholder(step) ==
    Returned(StepDict(
        VStr(Take(PyStr(DictGet(step, K_description, VStr(S_NoDescription))),
                  MAX_DESCRIPTION)),
        VStr(Take(strip(PyStr(DictGet(step, K_command, VStr(<<>>)))),
                  MAX_COMMAND)),
        VBool(Truthy(DictGet(step, K_requires_sudo, VBool(FALSE))))))

\* the body of the loop over raw_steps, for a step that is a dict
sanitize_step(step) ==
    LET stripped == strip(PyStr(DictGet(step, K_command, VStr(<<>>))))
        sliced   == EchoSlice(DictGet(step, K_description, VStr(S_ManualStep)))
        command  == IF stripped = <<>>
                    THEN S_Echo \o PyStr(sliced.value)
                    ELSE stripped
    IN  IF stripped = <<>> /\ sliced.kind = "raise" THEN Raised
        ELSE Returned(StepDict(
                 VStr(Take(PyStr(DictGet(step, K_description,
                                         VStr(S_NoDescription))),
                           MAX_DESCRIPTION)),
                 VStr(Take(command, MAX_COMMAND)),
                 VBool(Truthy(DictGet(step, K_requires_sudo, VBool(FALSE))))))

\* SliceSteps with the slice one entry too long
SliceSteps_OneMore(raw_steps) ==
    CASE raw_steps.t = "list" ->
           Returned(VList(Take(raw_steps.l, MAX_STEPS + 1)))
      [] raw_steps.t = "str"  ->
           Returned(VList([i \in 1..Len(Take(raw_steps.s, MAX_STEPS + 1)) |->
                              VStr(<<raw_steps.s[i]>>)]))
      [] OTHER                -> Raised

\* raw_steps[:6] for a truthy raw_steps: the entries the loop visits
SliceSteps(raw_steps) ==
    CASE raw_steps.t = "list" -> Returned(VList(Take(raw_steps.l, MAX_STEPS)))
      [] raw_steps.t = "str"  ->
           Returned(VList([i \in 1..Len(Take(raw_steps.s, MAX_STEPS)) |->
                              VStr(<<raw_steps.s[i]>>)]))
      [] OTHER                -> Raised

RECURSIVE StepsLoop(_, _, _)
\* for step in raw_steps[:6]: acc is sanitized["steps"] before entry i
StepsLoop(entries, i, acc) ==
    IF i > Len(entries) THEN Returned(VList(acc))
    ELSE IF entries[i].t # "dict" THEN StepsLoop(entries, i + 1, acc)
    ELSE LET r == sanitize_step(entries[i])
         IN  IF r.kind = "raise" THEN Raised
             ELSE StepsLoop(entries, i + 1, Append(acc, r.value))

\* sanitize_steps that drops the non-mappings before it takes six entries
sanitize_steps_FilterFirst(raw_steps) ==
    IF ~Truthy(raw_steps) THEN Returned(VList(<<NoStepsStep>>))
    ELSE LET kept  == IF raw_steps.t = "list"
                      THEN VList(SelectSeq(raw_steps.l,
                                           LAMBDA e : e.t = "dict"))
                      ELSE raw_steps
             slice == SliceSteps(kept)
         IN  IF slice.kind = "raise" THEN Raised
             ELSE StepsLoop(slice.value.l, 1, <<>>)

\* sanitize_steps without the step that stands for missing steps
sanitize_steps_NoDefault(raw_steps) ==
    IF ~Truthy(raw_steps) THEN Returned(VList(<<>>))
    ELSE LET slice == SliceSteps(raw_steps)
         IN  IF slice.kind = "raise" THEN Raised
             ELSE StepsLoop(slice.value.l, 1, <<>>)

\* sanitized["steps"] from plan.get("steps", [])
sanitize_steps(raw_steps) ==
    IF ~Truthy(raw_steps) THEN Returned(VList(<<NoStepsStep>>))
    ELSE LET slice == SliceSteps(raw_steps)
         IN  IF slice.kind = "raise" THEN Raised
             ELSE StepsLoop(slice.value.l, 1, <<>>)

\* error_branch that reads the issue of the payload, as the normal branch does
error_branch_PayloadIssue(plan, iss) ==
    Returned(ServiceErrorPlan(DictGet(plan, K_error, VNone),
                              DictGet(plan, K_issue, iss)))

\* if "error" in plan: return {..., "steps": [{"description": plan["error"], ...}]}
error_branch(plan, iss) ==
    Returned(ServiceErrorPlan(DictGet(plan, K_error, VNone), iss))

\* normal_branch with the time estimate of the terminal branches as default
normal_branch_TerminalDefault(plan, iss) ==
    LET steps == sanitize_steps(DictGet(plan, K_steps, VList(<<>>)))
    IN  IF steps.kind = "raise" THEN Raised
        ELSE Returned(PlanDict(
                 DictGet(plan, K_software, VStr(S_Unknown)),
                 DictGet(plan, K_issue, iss),
                 DictGet(plan, K_summary, VStr(S_RepairSteps)),
                 steps.value,
                 DictGet(plan, K_estimated_time_minutes, VInt(TERMINAL_MINUTES)),
                 DictGet(plan, K_needs_reboot, VBool(FALSE))))

\* sanitized = {...}; raw_steps = plan.get("steps", []); ...; return sanitized
normal_branch(plan, iss) ==
    LET steps == sanitize_steps(DictGet(plan, K_steps, VList(<<>>)))
    IN  IF steps.kind = "raise" THEN Raised
        ELSE Returned(PlanDict(
                 DictGet(plan, K_software, VStr(S_Unknown)),
                 DictGet(plan, K_issue, iss),
                 DictGet(plan, K_summary, VStr(S_RepairSteps)),
                 steps.value,
                 DictGet(plan, K_estimated_time_minutes, VInt(DEFAULT_MINUTES)),
                 DictGet(plan, K_needs_reboot, VBool(FALSE))))

\* sanitize_plan after the json.loads of a string argument: plan["error"] and
\* plan.get raise unless plan is a dict
sanitize_parsed(plan, iss) ==
    LET found == ErrorIn(plan)
    IN  IF found = "raise" \/ plan.t # "dict" THEN Raised
        ELSE IF found = "yes" THEN error_branch(plan, iss)
        ELSE normal_branch(plan, iss)

\* sanitize_plan without the try/except around json.loads
sanitize_plan_NoExcept(plan, iss) ==
    IF plan.t = "str"
    THEN LET parsed == json_loads(plan.s)
         IN  IF ~parsed.ok THEN Raised
             ELSE sanitize_parsed(parsed.v, iss)
    ELSE sanitize_parsed(plan, iss)

\* sanitize_plan(plan, issue)
sanitize_plan(plan, iss) ==
    IF plan.t = "str"
    THEN LET parsed == json_loads(plan.s)
         IN  IF ~parsed.ok THEN Returned(ParseFailurePlan(iss))
             ELSE sanitize_parsed(parsed.v, iss)
    ELSE sanitize_parsed(plan, iss)

----------------------------------------------------------------------------
(* The arguments sanitize_plan is called with.                              *)

\* number of entries of the longest raw steps list
MaxRawSteps == 7

\* how far the longest texts exceed a length cap
MaxOver == 1

T_ClearCache == <<"C", "l", "e", "a", "r", " ", "c", "a", "c", "h", "e">>

T_rm == <<"r", "m", " ", "x">>

T_ls == <<" ", "l", "s", " ">>

T_false == <<"f", "a", "l", "s", "e">>

T_timeout == <<"t", "i", "m", "e", "o", "u", "t">>

T_Chrome == <<"C", "h", "r", "o", "m", "e">>

T_other == <<"o", "t", "h", "e", "r", " ", "i", "s", "s", "u", "e">>

T_slow == <<"s", "l", "o", "w", " ", "b", "r", "o", "w", "s", "e", "r">>

T_wifi == <<"n", "o", " ", "w", "i", "f", "i">>

T_notmap ==

    << "n", "o", "t", "-", "a", "-", "m", "a", "p", "p", "i", "n", "g" >>

T_abc == <<"a", "b", "c">>

T_15 == <<"1", "5">>

\* the text of k copies of the character c
Pad(c, k) == [i \in 1..k |-> c]

\* marks a key that a dict of the pool does not have
Absent == [t |-> "absent", s |-> <<>>, n |-> 0, b |-> FALSE, l |-> <<>>, d |-> <<>>]

\* the dict with the given items, those marked Absent left out
Build(items) == VDict(SelectSeq(items, LAMBDA kv : kv.v.t # "absent"))

DescPool ==
    { Absent, VStr(T_ClearCache), VStr(<<>>), VInt(5), VNone, VList(<<>>) }
    \cup { VStr(Pad("d", MAX_ECHO + o)) : o \in 1..MaxOver }
    \cup { VStr(Pad("d", MAX_DESCRIPTION + o)) : o \in 0..MaxOver }

CmdPool ==
    { Absent, VStr(<<>>), VStr(<<" ", "\t">>), VNone, VStr(T_rm), VInt(12),
      VStr(T_ls) }
    \cup { VStr(Pad("c", MAX_COMMAND + o)) : o \in 0..MaxOver }
    \cup { VStr(Pad("c", MAX_COMMAND - 1) \o <<" ">> \o Pad("z", o)) :
             o \in 1..MaxOver }

SudoPool == { Absent, VBool(TRUE), VStr(T_false), VInt(0) }

\* raw step mappings, every combination of the three fields
StepPool ==
    { Build(<< KV(K_description, de), KV(K_command, co),
               KV(K_requires_sudo, su) >>) :
        de \in DescPool, co \in CmdPool, su \in SudoPool }

StepA == Build(<< KV(K_description, VStr(<<"a">>)), KV(K_command, VStr(<<"x">>)) >>)

StepB == Build(<< KV(K_description, VStr(<<"b">>)), KV(K_command, VStr(<<"y">>)) >>)

\* the entries of the longer raw steps lists: four mappings, two non-mappings
EntryPool ==
    { StepA, StepB, VDict(<<>>), Build(<< KV(K_description, VInt(5)) >>),
      VStr(T_notmap), VInt(7) }

\* the list of k entries a, with b at position at
ListWith(k, a, b, at) == [i \in 1..k |-> IF i = at THEN b ELSE a]

StepsPool ==
    { <<e>> : e \in StepPool }
    \cup { ListWith(k, a, b, at) :
             k \in 1..MaxRawSteps, a \in EntryPool, b \in EntryPool,
             at \in 1..MaxRawSteps }

\* mappings that differ in their top-level fields
FieldPlans ==
    { Build(<< KV(K_software, so), KV(K_issue, is), KV(K_error, er),
               KV(K_summary, su), KV(K_steps, st),
               KV(K_estimated_time_minutes, mi), KV(K_needs_reboot, re) >>) :
        so \in { Absent, VStr(T_Chrome), VInt(3) },
        is \in { Absent, VStr(T_other) },
        er \in { Absent, VStr(T_timeout), VInt(5),
                 VStr(Pad("e", MAX_DESCRIPTION + MaxOver)) },
        su \in { Absent, VStr(Pad("s", MAX_DESCRIPTION + MaxOver)) },
        st \in { Absent, VList(<<>>), VNone, VStr(<<>>), VStr(T_abc), VInt(5),
                 VDict(<<>>), VList(<<StepA>>) },
        mi \in { Absent, VInt(5), VStr(T_15) },
        re \in { Absent, VBool(TRUE) } }

\* the string arguments of the model: texts that are and are not JSON
TextPool ==
      \* not json
    { << "n", "o", "t", " ", "j", "s", "o", "n" >>,
      \* 
      << >>,
      \* {"software": "Chrome"
      << "{", "\"", "s", "o", "f", "t", "w", "a", "r", "e", "\"", ":", " ",
         "\"", "C", "h", "r", "o", "m", "e", "\"" >>,
      \* {"a":1,}
      << "{", "\"", "a", "\"", ":", "1", ",", "}" >>,
      \* [1,]
      << "[", "1", ",", "]" >>,
      \* 01
      << "0", "1" >>,
      \* "unterminated
      << "\"", "u", "n", "t", "e", "r", "m", "i", "n", "a", "t", "e", "d" >>,
      \* {"a": NaN}
      << "{", "\"", "a", "\"", ":", " ", "N", "a", "N", "}" >>,
      \* {"needs_reboot": -Infinity}
      << "{", "\"", "n", "e", "e", "d", "s", "_", "r", "e", "b", "o", "o",
         "t", "\"", ":", " ", "-", "I", "n", "f", "i", "n", "i", "t", "y",
         "}" >>,
      \* {}
      << "{", "}" >>,
      \*  {} 
      << " ", "{", "}", " " >>,
      \* {"steps": []}
      << "{", "\"", "s", "t", "e", "p", "s", "\"", ":", " ", "[", "]", "}" >>,
      \* {"summary": "s", "steps": null}
      << "{", "\"", "s", "u", "m", "m", "a", "r", "y", "\"", ":", " ", "\"",
         "s", "\"", ",", " ", "\"", "s", "t", "e", "p", "s", "\"", ":", " ",
         "n", "u", "l", "l", "}" >>,
      \* {"error": "timeout"}
      << "{", "\"", "e", "r", "r", "o", "r", "\"", ":", " ", "\"", "t", "i",
         "m", "e", "o", "u", "t", "\"", "}" >>,
      \* {"issue": "other", "error": "timeout", "steps": [{"description": "a", "command": "x"}]}
      << "{", "\"", "i", "s", "s", "u", "e", "\"", ":", " ", "\"", "o", "t",
         "h", "e", "r", "\"", ",", " ", "\"", "e", "r", "r", "o", "r", "\"",
         ":", " ", "\"", "t", "i", "m", "e", "o", "u", "t", "\"", ",", " ",
         "\"", "s", "t", "e", "p", "s", "\"", ":", " ", "[", "{", "\"", "d",
         "e", "s", "c", "r", "i", "p", "t", "i", "o", "n", "\"", ":", " ",
         "\"", "a", "\"", ",", " ", "\"", "c", "o", "m", "m", "a", "n", "d",
         "\"", ":", " ", "\"", "x", "\"", "}", "]", "}" >>,
      \* 5
      << "5" >>,
      \* [1]
      << "[", "1", "]" >>,
      \* ["error"]
      << "[", "\"", "e", "r", "r", "o", "r", "\"", "]" >>,
      \* "an error"
      << "\"", "a", "n", " ", "e", "r", "r", "o", "r", "\"" >>,
      \* "abc"
      << "\"", "a", "b", "c", "\"" >>,
      \* null
      << "n", "u", "l", "l" >>,
      \* true
      << "t", "r", "u", "e" >>,
      \* {"steps": "abc"}
      << "{", "\"", "s", "t", "e", "p", "s", "\"", ":", " ", "\"", "a", "b",
         "c", "\"", "}" >>,
      \* {"steps": 5}
      << "{", "\"", "s", "t", "e", "p", "s", "\"", ":", " ", "5", "}" >>,
      \* {"steps": [{}]}
      << "{", "\"", "s", "t", "e", "p", "s", "\"", ":", " ", "[", "{", "}",
         "]", "}" >>,
      \* {"software":"Chrome","steps":[{"description":"Clear cache","command":"","requires_sudo":false}]}
      << "{", "\"", "s", "o", "f", "t", "w", "a", "r", "e", "\"", ":", "\"",
         "C", "h", "r", "o", "m", "e", "\"", ",", "\"", "s", "t", "e", "p",
         "s", "\"", ":", "[", "{", "\"", "d", "e", "s", "c", "r", "i", "p",
         "t", "i", "o", "n", "\"", ":", "\"", "C", "l", "e", "a", "r", " ",
         "c", "a", "c", "h", "e", "\"", ",", "\"", "c", "o", "m", "m", "a",
         "n", "d", "\"", ":", "\"", "\"", ",", "\"", "r", "e", "q", "u", "i",
         "r", "e", "s", "_", "s", "u", "d", "o", "\"", ":", "f", "a", "l",
         "s", "e", "}", "]", "}" >>,
      \* {"steps": [{"description":"a","command":"x"}, "not-a-mapping", {"description":"b","command":"y"}]}
      << "{", "\"", "s", "t", "e", "p", "s", "\"", ":", " ", "[", "{", "\"",
         "d", "e", "s", "c", "r", "i", "p", "t", "i", "o", "n", "\"", ":",
         "\"", "a", "\"", ",", "\"", "c", "o", "m", "m", "a", "n", "d", "\"",
         ":", "\"", "x", "\"", "}", ",", " ", "\"", "n", "o", "t", "-", "a",
         "-", "m", "a", "p", "p", "i", "n", "g", "\"", ",", " ", "{", "\"",
         "d", "e", "s", "c", "r", "i", "p", "t", "i", "o", "n", "\"", ":",
         "\"", "b", "\"", ",", "\"", "c", "o", "m", "m", "a", "n", "d", "\"",
         ":", "\"", "y", "\"", "}", "]", "}" >> }

\* every raw argument of the model
RawPool ==
    { Build(<< KV(K_steps, VList(st)) >>) : st \in StepsPool }
    \cup FieldPlans
    \cup { VStr(x) : x \in TextPool }
    \cup { VNone, VInt(5), VBool(TRUE), VList(<<>>), VList(<<VStr(K_error)>>) }

\* the fallback issues
IssuePool == { VStr(T_slow), VStr(T_wifi) }

----------------------------------------------------------------------------
(* One call of sanitize_plan on each pair of arguments.                     *)

InitSanitize ==
    /\ raw \in RawPool
    /\ issue \in IssuePool
    /\ pc = "call"
    /\ result = NotCalled
    /\ sessions = <<>>
    /\ reqs = <<>>
    /\ emails = <<>>
    /\ now = 0

\* sanitize_plan that normalises the mapping it is given in place
argument_after_InPlace(plan, iss) ==
    IF plan.t = "dict" /\ sanitize_plan(plan, iss).kind = "return"
    THEN sanitize_plan(plan, iss).value
    ELSE plan

\* the object passed as plan when the call is over: sanitize_plan rebinds its
\* local name plan and stores only into its own dict sanitized and the list
\* sanitized["steps"], never into the argument or a step of it
argument_after(plan, iss) == plan

\* plan = sanitize_plan(raw, issue), on the first arguments ("call") or on a
\* returned plan given back as the raw value ("recall")
Call ==
    /\ pc \in {"call", "recall"}
    /\ result' = sanitize_plan(raw, issue)
    /\ raw' = argument_after(raw, issue)
    /\ pc' = IF pc = "call" THEN "done" ELSE "redone"
    /\ UNCHANGED issue
    /\ UNCHANGED srvVars

\* the caller calls sanitize_plan a second time with the same two objects
Repeat ==
    /\ pc = "done"
    /\ result' = sanitize_plan(raw, issue)
    /\ raw' = argument_after(raw, issue)
    /\ pc' = "repeated"
    /\ UNCHANGED issue
    /\ UNCHANGED srvVars

\* the caller hands a returned plan back to sanitize_plan as its raw value
Resubmit ==
    /\ pc = "done"
    /\ result.kind = "return"
    /\ raw' = result.value
    /\ result' = NotCalled
    /\ pc' = "recall"
    /\ UNCHANGED issue
    /\ UNCHANGED srvVars

NextSanitize == Call \/ Resubmit \/ Repeat

SpecSanitize == InitSanitize /\ [][NextSanitize]_vars

----------------------------------------------------------------------------
(* The properties of sanitize_plan.  The texts and numbers below are those *)
(* the specification states, written out again.                             *)

Txt_Unknown == <<"U", "n", "k", "n", "o", "w", "n">>

Txt_FailedToParse ==

    << "F", "a", "i", "l", "e", "d", " ", "t", "o", " ", "p", "a", "r", "s",
       "e", " ", "A", "I", " ", "r", "e", "s", "p", "o", "n", "s", "e" >>

Txt_InvalidFormat ==

    << "A", "I", " ", "r", "e", "t", "u", "r", "n", "e", "d", " ", "i", "n",
       "v", "a", "l", "i", "d", " ", "f", "o", "r", "m", "a", "t" >>

Txt_ServiceError ==

    << "A", "I", " ", "s", "e", "r", "v", "i", "c", "e", " ", "e", "r", "r",
       "o", "r" >>

Txt_NoStepsGenerated ==

    << "N", "o", " ", "r", "e", "p", "a", "i", "r", " ", "s", "t", "e", "p",
       "s", " ", "g", "e", "n", "e", "r", "a", "t", "e", "d" >>

\* the value of a key of a dict, Absent when the dict lacks it
Field(dict, key) == DictGet(dict, key, Absent)

\* the call has returned a plan
ReturnedPlan == pc = "done" /\ result.kind = "return"

\* the steps of the returned plan
OutSteps == Field(result.value, K_steps).l

\* the raw argument is a mapping without the key error
PlainMapping == raw.t = "dict" /\ ~HasKey(raw, K_error)

\* the raw steps of a mapping argument
RawSteps == Field(raw, K_steps)

\* x is a string that is not empty
NonEmptyText(x) == x.t = "str" /\ x.s # <<>>

\* C1: sanitize_plan returns a plan for every raw value and every fallback
\* issue; no call ends by raising an error.
C1_NeverRaises == pc = "done" => result.kind = "return"

\* C2: every plan that sanitize_plan returns has at least one step.
C2_AtLeastOneStep == ReturnedPlan => Len(OutSteps) >= 1

\* C3: in every plan that sanitize_plan returns, the command of every step
\* is a string that is not empty.
C3_CommandNeverEmpty ==
    ReturnedPlan =>
        \A i \in 1..Len(OutSteps) : NonEmptyText(Field(OutSteps[i], K_command))

\* a raw step whose command is only whitespace has produced a step
C3_Witness ==
    /\ ReturnedPlan /\ PlainMapping
    /\ RawSteps.t = "list" /\ Len(RawSteps.l) = 1
    /\ Field(RawSteps.l[1], K_command) = VStr(<<" ", "\t">>)
    /\ Len(OutSteps) = 1

\* the raw mapping with its steps list cut after the sixth entry
CutAfterSix ==
    VDict(DictPut(raw.d, K_steps, VList(Take(RawSteps.l, 6))))

\* C4: a returned plan has at most 6 steps, and the outcome of a call on a
\* mapping with a steps list is the outcome of the call on the same mapping
\* with the entries after the sixth removed.
C4_AtMostSixSteps ==
    /\ ReturnedPlan => Len(OutSteps) <= 6
    /\ (pc = "done" /\ raw.t = "dict" /\ RawSteps.t = "list")
          => result = sanitize_plan(CutAfterSix, issue)

\* a list of more than six mappings, the seventh unlike the first, gave 6 steps
C4_Witness ==
    /\ ReturnedPlan /\ PlainMapping
    /\ RawSteps.t = "list" /\ Len(RawSteps.l) > 6
    /\ \A i \in 1..Len(RawSteps.l) : RawSteps.l[i].t = "dict"
    /\ RawSteps.l[7] # RawSteps.l[1]
    /\ Len(OutSteps) = 6

\* C5: in every returned plan, on every branch, a step's description has at
\* most 300 characters and its command at most 500.
C5_StepTextsCapped ==
    ReturnedPlan =>
        \A i \in 1..Len(OutSteps) :
            LET de == Field(OutSteps[i], K_description)
                co == Field(OutSteps[i], K_command)
            IN  /\ de.t = "str" => Len(de.s) <= 300
                /\ co.t = "str" => Len(co.s) <= 500

\* p is the parse-failure plan for the fallback issue iss
IsParseFailurePlan(p, iss) ==
    /\ p.t = "dict"
    /\ Field(p, K_software) = VStr(Txt_Unknown)
    /\ Field(p, K_issue) = iss
    /\ Field(p, K_summary) = VStr(Txt_FailedToParse)
    /\ Field(p, K_steps).t = "list"
    /\ Len(Field(p, K_steps).l) = 1
    /\ Field(Field(p, K_steps).l[1], K_description) = VStr(Txt_InvalidFormat)
    /\ NonEmptyText(Field(Field(p, K_steps).l[1], K_command))
    /\ Field(Field(p, K_steps).l[1], K_requires_sudo) = VBool(FALSE)
    /\ Field(p, K_estimated_time_minutes) = VInt(5)
    /\ Field(p, K_needs_reboot) = VBool(FALSE)

\* C6, as stated: for every string that is not valid JSON, sanitize_plan
\* returns the parse-failure plan.
C6_InvalidJsonGivesParseFailure ==
    (pc = "done" /\ raw.t = "str" /\ ~IsValidJson(raw.s))
        => (result.kind = "return" /\ IsParseFailurePlan(result.value, issue))

\* C6, amended: for every string that json.loads rejects, sanitize_plan
\* returns the parse-failure plan.
C6_RejectedTextGivesParseFailure ==
    (pc = "done" /\ raw.t = "str" /\ ~json_loads(raw.s).ok)
        => (result.kind = "return" /\ IsParseFailurePlan(result.value, issue))

\* a text that json.loads rejects has been sanitized
C6_Witness ==
    /\ pc = "done" /\ raw.t = "str" /\ raw.s # <<>>
    /\ ~json_loads(raw.s).ok
    /\ result.kind = "return"

\* C7: for every mapping with the key error, of value e, sanitize_plan
\* returns a plan with one step whose description is e, summary "AI service
\* error", 5 minutes, no reboot and the fallback issue; the plan is the one
\* returned for the mapping that has the key error alone.
C7_ErrorGivesServiceErrorPlan ==
    (pc = "done" /\ raw.t = "dict" /\ HasKey(raw, K_error)) =>
        /\ result.kind = "return"
        /\ Len(OutSteps) = 1
        /\ Field(OutSteps[1], K_description) = Field(raw, K_error)
        /\ Field(result.value, K_summary) = VStr(Txt_ServiceError)
        /\ Field(result.value, K_estimated_time_minutes) = VInt(5)
        /\ Field(result.value, K_needs_reboot) = VBool(FALSE)
        /\ Field(result.value, K_issue) = issue
        /\ result = sanitize_plan(VDict(<<KV(K_error, Field(raw, K_error))>>),
                                  issue)

\* a mapping with error, steps and an issue of its own has been sanitized
C7_Witness ==
    /\ pc = "done" /\ raw.t = "dict"
    /\ HasKey(raw, K_error) /\ HasKey(raw, K_steps) /\ HasKey(raw, K_issue)
    /\ Field(raw, K_issue) # issue
    /\ result.kind = "return"

\* C8: for every mapping without error whose steps is absent or empty, the
\* returned plan has exactly one step, with description "No repair steps
\* generated", a command that is not empty and requires_sudo false.
C8_NoStepsGivesPlaceholder ==
    (/\ pc = "done" /\ PlainMapping
     /\ \/ ~HasKey(raw, K_steps)
        \/ RawSteps \in {VList(<<>>), VStr(<<>>), VDict(<<>>)}) =>
        /\ result.kind = "return"
        /\ Len(OutSteps) = 1
        /\ Field(OutSteps[1], K_description) = VStr(Txt_NoStepsGenerated)
        /\ NonEmptyText(Field(OutSteps[1], K_command))
        /\ Field(OutSteps[1], K_requires_sudo) = VBool(FALSE)

\* a mapping with other fields and no steps has been sanitized
C8_Witness ==
    /\ pc = "done" /\ PlainMapping
    /\ ~HasKey(raw, K_steps) /\ HasKey(raw, K_software)
    /\ result.kind = "return"

\* C9: for every mapping without error whose steps list has more than 6
\* entries, all of them mappings, the returned plan has exactly 6 steps and
\* step i is the sanitized form of raw entry i, for i = 1..6.
C9_FirstSixInOrder ==
    (/\ pc = "done" /\ PlainMapping
     /\ RawSteps.t = "list" /\ Len(RawSteps.l) > 6
     /\ \A i \in 1..Len(RawSteps.l) : RawSteps.l[i].t = "dict") =>
        /\ result.kind = "return"
        /\ Len(OutSteps) = 6
        /\ \A i \in 1..6 : Returned(OutSteps[i]) = sanitize_step(RawSteps.l[i])

\* C10: for every raw step mapping whose command is empty or missing, the
\* step made from it has a command that is not empty and that contains the
\* first 50 characters of the description of that same step.
C10_EchoCarriesDescription ==
    (/\ ReturnedPlan /\ PlainMapping
     /\ RawSteps.t = "list" /\ Len(RawSteps.l) = 1
     /\ RawSteps.l[1].t = "dict"
     /\ \/ ~HasKey(RawSteps.l[1], K_command)
        \/ Field(RawSteps.l[1], K_command) = VStr(<<>>)) =>
        /\ Len(OutSteps) = 1
        /\ NonEmptyText(Field(OutSteps[1], K_command))
        /\ IsSubstring(Take(Field(OutSteps[1], K_description).s, 50),
                       Field(OutSteps[1], K_command).s)

\* C11: sanitize_plan is idempotent: a plan it returned, given back as the
\* raw value with the same issue, is returned unchanged.
C11_Idempotent == pc = "redone" => result = Returned(raw)

\* the mappings among the first six entries of the raw steps list, in order
ScannedMappings == SelectSeq(Take(RawSteps.l, 6), LAMBDA e : e.t = "dict")

\* C12: the steps of a returned plan are the sanitized forms, in order, of
\* the mappings among the first 6 entries of the raw steps list: an entry
\* that is not a mapping gives no step but takes one of the 6 places.
C12_MappingsAmongFirstSix ==
    (ReturnedPlan /\ PlainMapping /\ RawSteps.t = "list" /\ RawSteps.l # <<>>)
        => OutSteps = [i \in 1..Len(ScannedMappings) |->
                          sanitize_step(ScannedMappings[i]).value]

\* seven entries, one of the first six not a mapping, the seventh a mapping:
\* five steps came out
C12_Witness ==
    /\ ReturnedPlan /\ PlainMapping
    /\ RawSteps.t = "list" /\ Len(RawSteps.l) >= 7
    /\ \E i \in 1..6 : RawSteps.l[i].t # "dict"
    /\ RawSteps.l[7].t = "dict"
    /\ Len(OutSteps) = 5

Txt_RepairSteps ==
    << "R", "e", "p", "a", "i", "r", " ", "s", "t", "e", "p", "s" >>

\* the value sanitize_plan works on: the raw value, parsed when it is a text
Payload == IF raw.t = "str" THEN json_loads(raw.s).v ELSE raw

\* the call went through the normal branch: the raw value is, or parses to,
\* a mapping without the key error
NormalBranch ==
    /\ raw.t = "str" => json_loads(raw.s).ok
    /\ Payload.t = "dict"
    /\ ~HasKey(Payload, K_error)

\* the value of a top-level field: the raw value, or def when the key is absent
RawOrDefault(key, def) ==
    IF HasKey(Payload, key) THEN Field(Payload, key) ELSE def

\* C20: in the normal branch each top-level field of the plan is the raw
\* value when the key is present and else its default: software "Unknown",
\* issue the fallback issue, summary "Repair steps", 10 minutes, no reboot;
\* a returned plan has 5 minutes only from a terminal branch or a raw 5.
C20_TopLevelDefaults ==
    /\ (ReturnedPlan /\ NormalBranch) =>
          /\ Field(result.value, K_software)
                = RawOrDefault(K_software, VStr(Txt_Unknown))
          /\ Field(result.value, K_issue) = RawOrDefault(K_issue, issue)
          /\ Field(result.value, K_summary)
                = RawOrDefault(K_summary, VStr(Txt_RepairSteps))
          /\ Field(result.value, K_estimated_time_minutes)
                = RawOrDefault(K_estimated_time_minutes, VInt(10))
          /\ Field(result.value, K_needs_reboot)
                = RawOrDefault(K_needs_reboot, VBool(FALSE))
    /\ (ReturnedPlan /\ NormalBranch
         /\ Field(result.value, K_estimated_time_minutes) = VInt(5))
          => Field(Payload, K_estimated_time_minutes) = VInt(5)

\* a mapping with a software and no time estimate came back with 10 minutes
C20_Witness ==
    /\ ReturnedPlan /\ NormalBranch
    /\ HasKey(Payload, K_software)
    /\ ~HasKey(Payload, K_estimated_time_minutes)
    /\ Field(result.value, K_estimated_time_minutes) = VInt(10)

----------------------------------------------------------------------------
(* The HTTP handlers generate_token, generate_plan and request_human_help, *)
(* with the session store, the AI gateway and the mail thread they call.   *)
(* Time stamps are kept as minutes on the clock now.                        *)

K_token == <<"t", "o", "k", "e", "n">>

K_email == <<"e", "m", "a", "i", "l">>

K_minutes == <<"m", "i", "n", "u", "t", "e", "s">>

K_system_info == <<"s", "y", "s", "t", "e", "m", "_", "i", "n", "f", "o">>

K_os == <<"o", "s">>

K_expires_in == <<"e", "x", "p", "i", "r", "e", "s", "_", "i", "n">>

K_expires_at == <<"e", "x", "p", "i", "r", "e", "s", "_", "a", "t">>

K_status == <<"s", "t", "a", "t", "u", "s">>

K_rdp_code == <<"r", "d", "p", "_", "c", "o", "d", "e">>

S_UnknownIssue ==
    << "U", "n", "k", "n", "o", "w", "n", " ", "i", "s", "s", "u", "e" >>

S_ValidEmailRequired ==
    << "V", "a", "l", "i", "d", " ", "e", "m", "a", "i", "l", " ", "r", "e",
       "q", "u", "i", "r", "e", "d" >>

S_FailedToCreate ==
    << "F", "a", "i", "l", "e", "d", " ", "t", "o", " ", "c", "r", "e", "a",
       "t", "e", " ", "s", "e", "s", "s", "i", "o", "n" >>

S_InternalServerError ==
    << "I", "n", "t", "e", "r", "n", "a", "l", " ", "s", "e", "r", "v", "e",
       "r", " ", "e", "r", "r", "o", "r" >>

S_TokenAndIssue ==
    << "T", "o", "k", "e", "n", " ", "a", "n", "d", " ", "i", "s", "s", "u",
       "e", " ", "r", "e", "q", "u", "i", "r", "e", "d" >>

S_InvalidOrInactive ==
    << "I", "n", "v", "a", "l", "i", "d", " ", "o", "r", " ", "i", "n", "a",
       "c", "t", "i", "v", "e", " ", "s", "e", "s", "s", "i", "o", "n" >>

S_InvalidSession ==
    << "I", "n", "v", "a", "l", "i", "d", " ", "s", "e", "s", "s", "i", "o",
       "n" >>

S_sent == <<"s", "e", "n", "t">>

S_EchoError ==
    << "e", "c", "h", "o", " ", "E", "r", "r", "o", "r", " ", "o", "c", "c",
       "u", "r", "r", "e", "d" >>

S_MistralError ==
    << "M", "i", "s", "t", "r", "a", "l", " ", "A", "P", "I", " ", "e", "r",
       "r", "o", "r", ":", " " >>

S_UnexpectedError ==
    << "U", "n", "e", "x", "p", "e", "c", "t", "e", "d", " ", "e", "r", "r",
       "o", "r", ":", " " >>

\* the grave accent (U+0060), a character that a TLA+ string cannot hold
Grave == "grave"

S_FenceJson == <<Grave, Grave, Grave, "j", "s", "o", "n">>

S_Fence == <<Grave, Grave, Grave>>

S_Windows == <<"W", "i", "n", "d", "o", "w", "s">>

TECHNICIAN_EMAIL ==
    << "o", "l", "a", "d", "e", "j", "i", "o", "l", "a", "o", "l", "u", "w",
       "a", "4", "6", "@", "g", "m", "a", "i", "l", ".", "c", "o", "m" >>

\* int(request.json.get('minutes', 30))
DEFAULT_DURATION == 30

----------------------------------------------------------------------------
(* Python built-ins used by the handlers.                                   *)

\* int(v): ValueError or TypeError unless v is a number or a text of digits,
\* single underscores between them allowed, with an optional sign, between
\* optional whitespace
py_int(v) ==
    CASE v.t = "int"  -> Returned(VInt(v.n))
      [] v.t = "bool" -> Returned(VInt(IF v.b THEN 1 ELSE 0))
      [] v.t = "str"  ->
           LET x      == strip(v.s)
               signed == x # <<>> /\ x[1] \in {"-", "+"}
               body   == IF signed THEN SubSeq(x, 2, Len(x)) ELSE x
               digits == SelectSeq(body, IsDigit)
               mag    == DigitsVal(digits)
           IN  IF /\ body # <<>>
                  /\ IsDigit(body[1]) /\ IsDigit(body[Len(body)])
                  /\ \A i \in 1..Len(body) :
                       \/ IsDigit(body[i])
                       \/ body[i] = "_" /\ body[i - 1] # "_"
               THEN Returned(VInt(IF signed /\ x[1] = "-" THEN 0 - mag ELSE mag))
               ELSE Raised
      [] OTHER        -> Raised

\* '@' in email: "yes", "no", or "raise" when email is not a container
AtIn(email) ==
    CASE email.t = "str"  ->
           IF \E i \in 1..Len(email.s) : email.s[i] = "@" THEN "yes" ELSE "no"
      [] email.t = "list" ->
           IF \E i \in 1..Len(email.l) : email.l[i] = VStr(<<"@">>)
           THEN "yes" ELSE "no"
      [] email.t = "dict" -> IF HasKey(email, <<"@">>) THEN "yes" ELSE "no"
      [] OTHER            -> "raise"

\* str.upper() of one character of a uuid text
UpperChar(c) ==
    CASE c = "a" -> "A" [] c = "b" -> "B" [] c = "c" -> "C"
      [] c = "d" -> "D" [] c = "e" -> "E" [] c = "f" -> "F"
      [] OTHER -> c

\* str.upper()
upper(x) == [i \in 1..Len(x) |-> UpperChar(x[i])]

\* the first index at or after from where pat starts in x, 0 if there is none
FindFrom(x, pat, from) ==
    LET hits == {i \in from..(Len(x) - Len(pat) + 1) : StartsAt(x, i, pat)}
    IN  IF hits = {} THEN 0 ELSE MinOf(hits)

\* x.split(fence)[1].split(S_Fence)[0], for a text x that contains fence
BetweenFences(x, fence) ==
    LET start == FindFrom(x, fence, 1) + Len(fence)
        close == FindFrom(x, S_Fence, start)
    IN  SubSeq(x, start, IF close = 0 THEN Len(x) ELSE close - 1)

S_NoStrip ==
    << "'", "N", "o", "n", "e", "T", "y", "p", "e", "'", " ", "o", "b", "j",
       "e", "c", "t", " ", "h", "a", "s", " ", "n", "o", " ", "a", "t", "t",
       "r", "i", "b", "u", "t", "e", " ", "'", "s", "t", "r", "i", "p", "'" >>

S_TimedOut == <<"t", "i", "m", "e", "d", " ", "o", "u", "t">>

----------------------------------------------------------------------------
(* The session store adapter.  A call is applied by the store and answered *)
(* ("applied"), refused or never delivered ("failed"), or applied with the *)
(* answer lost to a timeout ("lost").                                       *)

StoreOutcomes == {"applied", "failed", "lost"}

\* a row of the sessions table
Row(token, email, iss, active, expires_at, plan) ==
    [token |-> token, email |-> email, issue |-> iss, active |-> active,
     expires_at |-> expires_at, plan |-> plan]

\* what supabase_get_token returns: a row, or None
Found(row) == [found |-> TRUE, row |-> row]

NoSession ==
    [found |-> FALSE, row |-> Row(<<>>, VNone, VNone, FALSE, 0, VNone)]

\* a fetch that answers from the store also when the call has failed
supabase_get_token_Unfailing(store, token, answered) ==
    LET hits == {i \in 1..Len(store) : store[i].token = PyStr(token)}
    IN  IF hits = {} THEN NoSession ELSE Found(store[MinOf(hits)])

\* supabase_get_token(token): the first row whose token is the text of the
\* argument; None when the call fails or no row matches
supabase_get_token(store, token, answered) ==
    LET hits == {i \in 1..Len(store) : store[i].token = PyStr(token)}
    IN  IF ~answered \/ hits = {} THEN NoSession
        ELSE Found(store[MinOf(hits)])

\* an update that puts the given columns in the place of the whole row
supabase_update_session_WholeRow(store, token, plan, outcome) ==
    [store |-> IF outcome = "failed" THEN store
               ELSE [i \in 1..Len(store) |->
                       IF store[i].token = PyStr(token)
                       THEN Row(store[i].token, VNone, VNone, store[i].active,
                                store[i].expires_at, plan)
                       ELSE store[i]],
     ret   |-> outcome = "applied"]

\* an update that keeps a plan that the session already has
supabase_update_session_KeepFirst(store, token, plan, outcome) ==
    [store |-> IF outcome = "failed" THEN store
               ELSE [i \in 1..Len(store) |->
                       IF store[i].token = PyStr(token) /\ store[i].plan = VNone
                       THEN [store[i] EXCEPT !.plan = plan]
                       ELSE store[i]],
     ret   |-> outcome = "applied"]

\* supabase_update_session(token, {"plan": plan}): the store afterwards and
\* the returned flag
supabase_update_session(store, token, plan, outcome) ==
    [store |-> IF outcome = "failed" THEN store
               ELSE [i \in 1..Len(store) |->
                       IF store[i].token = PyStr(token)
                       THEN [store[i] EXCEPT !.plan = plan]
                       ELSE store[i]],
     ret   |-> outcome = "applied"]

\* supabase_insert_session(payload): the store afterwards and the returned flag
supabase_insert_session(store, row, outcome) ==
    [store |-> IF outcome = "failed" THEN store ELSE Append(store, row),
     ret   |-> outcome = "applied"]

----------------------------------------------------------------------------
(* The AI gateway adapter.                                                  *)

\* what requests.post does: it raises with message msg, or it answers with
\* a status and, in the completion, a content
HttpRaises(msg) == [kind |-> "exception", msg |-> msg, status |-> 0, content |-> VNone]

HttpAnswers(status, content) ==
    [kind |-> "response", msg |-> <<>>, status |-> status, content |-> content]

\* {"error": msg}
ErrorDict(msg) == VDict(<<KV(K_error, VStr(msg))>>)

\* the completion text without its code fence
StripFence(text) ==
    IF FindFrom(text, S_FenceJson, 1) # 0 THEN BetweenFences(text, S_FenceJson)
    ELSE IF FindFrom(text, S_Fence, 1) # 0 THEN BetweenFences(text, S_Fence)
    ELSE text

\* call_mistral_ai that returns a completion it cannot parse as a text
call_mistral_ai_RawText(http) ==
    IF http.kind = "exception" THEN ErrorDict(S_UnexpectedError \o http.msg)
    ELSE IF http.status # 200
    THEN ErrorDict(S_MistralError \o IntStr(http.status))
    ELSE IF http.content.t # "str"
    THEN ErrorDict(S_UnexpectedError \o S_NoStrip)
    ELSE LET parsed == json_loads(strip(StripFence(strip(http.content.s))))
         IN  IF parsed.ok THEN parsed.v ELSE http.content

\* call_mistral_ai(prompt), for what the HTTP call does
call_mistral_ai(http) ==
    IF http.kind = "exception" THEN ErrorDict(S_UnexpectedError \o http.msg)
    ELSE IF http.status # 200
    THEN ErrorDict(S_MistralError \o IntStr(http.status))
    ELSE IF http.content.t # "str"
    THEN ErrorDict(S_UnexpectedError \o S_NoStrip)
    ELSE LET parsed == json_loads(strip(StripFence(strip(http.content.s))))
         IN  IF parsed.ok THEN parsed.v ELSE ErrorDict(S_FailedToParse)

\* build_repair_prompt(issue, system_info, ...): the values that the prompt
\* template embeds; it raises when system_info has no get
build_repair_prompt(iss, system_info) ==
    IF system_info.t # "dict" THEN Raised
    ELSE Returned(VList(<<iss, DictGet(system_info, K_os, VStr(S_Windows))>>))

----------------------------------------------------------------------------
(* The handlers' own pieces.                                                *)

\* a response: status and JSON body; status 0 while there is none
Response(status, body) == [status |-> status, body |-> body]

NoResponse == Response(0, VNone)

\* an answer that carries the text of the exception
internal_error_Detail == Response(500, ErrorDict(S_NoStrip))

\* except Exception: return jsonify({"error": "Internal server error"}), 500
internal_error == Response(500, ErrorDict(S_InternalServerError))

\* not email or '@' not in email: "yes", "no", or "raise"
email_invalid(email) ==
    IF ~Truthy(email) THEN "yes"
    ELSE IF AtIn(email) = "raise" THEN "raise"
    ELSE IF AtIn(email) = "no" THEN "yes" ELSE "no"

\* the token without upper()
make_token_NoUpper(uuid_text) ==
    Take(uuid_text, 4) \o <<"-">> \o SubSeq(uuid_text, 5, 8)

\* raw_token = str(uuid.uuid4())[:8].upper(); token = raw[:4] + "-" + raw[4:]
make_token(uuid_text) ==
    LET raw_token == upper(Take(uuid_text, 8))
    IN  Take(raw_token, 4) \o <<"-">> \o SubSeq(raw_token, 5, Len(raw_token))

\* the adapter's error mapping passed on as the body
ai_error_body_Raw(raw_plan, iss) == raw_plan

\* the body of the 500 answer of generate_plan when the payload has "error"
ai_error_body(raw_plan, iss) ==
    PlanDict(VStr(S_Unknown), iss, VStr(S_ServiceError),
             VList(<<StepDict(DictGet(raw_plan, K_error, VNone),
                              VStr(S_EchoError), VBool(FALSE))>>),
             VInt(TERMINAL_MINUTES), VBool(FALSE))

\* the external calls one request has made
NoCalls == [get |-> 0, insert |-> 0, update |-> 0, ai |-> 0, mail |-> 0]

\* request.json.get(key, default); request.json raises when the request has
\* no JSON body (Absent) and get is missing when the body is no mapping
request_get(body, key, default) ==
    IF body.t # "dict" THEN Raised ELSE Returned(DictGet(body, key, default))

\* an email handed to a background thread by send_email_async
Mail(to, kind, token) ==
    [to |-> to, kind |-> kind, token |-> token, state |-> "started"]

\* what one run of a handler leaves behind
Run(reply, fault, store, mail, calls, token, sess) ==
    [reply |-> reply, fault |-> fault, store |-> store, mail |-> mail,
     calls |-> calls, token |-> token, sess |-> sess]

\* generate_token() that starts the token email whatever the insert reported
generate_token_MailFirst(body, uuid_text, outcome, store, clock) ==
    LET email      == request_get(body, K_email, VNone)
        iss        == request_get(body, K_issue, VStr(S_UnknownIssue))
        minutes    == request_get(body, K_minutes, VInt(DEFAULT_DURATION))
        duration   == IF minutes.kind = "raise" THEN Raised
                      ELSE py_int(minutes.value)
        token      == make_token(uuid_text)
        expires_at == clock + duration.value.n
        inserted   == supabase_insert_session(
                          store,
                          Row(token, email.value, iss.value, TRUE, expires_at, VNone),
                          outcome)
    IN  IF \/ email.kind = "raise"
           \/ duration.kind = "raise"
           \/ email_invalid(email.value) = "raise"
        THEN Run(internal_error, TRUE, store, <<>>, NoCalls, VNone, NoSession)
        ELSE IF email_invalid(email.value) = "yes"
        THEN Run(Response(400, ErrorDict(S_ValidEmailRequired)), FALSE,
                 store, <<>>, NoCalls, VNone, NoSession)
        ELSE IF inserted.ret
        THEN Run(Response(201, VDict(<< KV(K_token, VStr(token)),
                                        KV(K_expires_in, duration.value),
                                        KV(K_expires_at, VInt(expires_at)) >>)),
                 FALSE, inserted.store,
                 <<Mail(email.value, "token", token)>>,
                 [NoCalls EXCEPT !.insert = 1, !.mail = 1], VStr(token),
                 NoSession)
        ELSE Run(Response(500, ErrorDict(S_FailedToCreate)), FALSE,
                 inserted.store,
                 <<Mail(email.value, "token", token)>>,
                 [NoCalls EXCEPT !.insert = 1, !.mail = 1],
                 VStr(token), NoSession)

\* generate_token() on a request body, for the uuid drawn and for what the
\* insert call does; instants are counted in minutes
generate_token(body, uuid_text, outcome, store, clock) ==
    LET email      == request_get(body, K_email, VNone)
        iss        == request_get(body, K_issue, VStr(S_UnknownIssue))
        minutes    == request_get(body, K_minutes, VInt(DEFAULT_DURATION))
        duration   == IF minutes.kind = "raise" THEN Raised
                      ELSE py_int(minutes.value)
        token      == make_token(uuid_text)
        expires_at == clock + duration.value.n
        inserted   == supabase_insert_session(
                          store,
                          Row(token, email.value, iss.value, TRUE, expires_at, VNone),
                          outcome)
    IN  IF \/ email.kind = "raise"
           \/ duration.kind = "raise"
           \/ email_invalid(email.value) = "raise"
        THEN Run(internal_error, TRUE, store, <<>>, NoCalls, VNone, NoSession)
        ELSE IF email_invalid(email.value) = "yes"
        THEN Run(Response(400, ErrorDict(S_ValidEmailRequired)), FALSE,
                 store, <<>>, NoCalls, VNone, NoSession)
        ELSE IF inserted.ret
        THEN Run(Response(201, VDict(<< KV(K_token, VStr(token)),
                                        KV(K_expires_in, duration.value),
                                        KV(K_expires_at, VInt(expires_at)) >>)),
                 FALSE, inserted.store,
                 <<Mail(email.value, "token", token)>>,
                 [NoCalls EXCEPT !.insert = 1, !.mail = 1], VStr(token),
                 NoSession)
        ELSE Run(Response(500, ErrorDict(S_FailedToCreate)), FALSE,
                 inserted.store, <<>>, [NoCalls EXCEPT !.insert = 1],
                 VStr(token), NoSession)

\* request_human_help() without its session check
request_human_help_NoCheck(body, answered, store) ==
    LET token == request_get(body, K_token, VNone)
        sess  == supabase_get_token(store, token.value, answered)
    IN  IF token.kind = "raise"
        THEN Run(internal_error, TRUE, store, <<>>, NoCalls, VNone, NoSession)
        ELSE Run(Response(200, VDict(<<KV(K_status, VStr(S_sent))>>)), FALSE,
                 store,
                 <<Mail(VStr(TECHNICIAN_EMAIL), "help", PyStr(token.value))>>,
                 [NoCalls EXCEPT !.get = 1, !.mail = 1], token.value, sess)

\* request_human_help() on a request body, for whether the fetch is answered
request_human_help(body, answered, store) ==
    LET token == request_get(body, K_token, VNone)
        sess  == supabase_get_token(store, token.value, answered)
    IN  IF token.kind = "raise"
        THEN Run(internal_error, TRUE, store, <<>>, NoCalls, VNone, NoSession)
        ELSE IF ~sess.found \/ ~sess.row.active
        THEN Run(Response(401, ErrorDict(S_InvalidSession)), FALSE, store,
                 <<>>, [NoCalls EXCEPT !.get = 1], token.value, sess)
        ELSE Run(Response(200, VDict(<<KV(K_status, VStr(S_sent))>>)), FALSE,
                 store,
                 <<Mail(VStr(TECHNICIAN_EMAIL), "help", PyStr(token.value))>>,
                 [NoCalls EXCEPT !.get = 1, !.mail = 1], token.value, sess)

\* a request: where it stands in its handler, what the handler has read and
\* computed, its reply, its external calls, and whether an exception was caught
Req(handler, body, at, token, iss, system_info, sess, raw_plan, plan, reply, calls, fault) ==
    [handler |-> handler, body |-> body, pc |-> at, token |-> token,
     issue |-> iss, system_info |-> system_info, sess |-> sess,
     raw_plan |-> raw_plan, plan |-> plan, reply |-> reply, calls |-> calls,
     fault |-> fault]

\* the request of a handler that has run to its end in one step
Finished(handler, body, run) ==
    Req(handler, body, "done", run.token, VNone, VNone, run.sess, VNone,
        VNone, run.reply, run.calls, run.fault)

\* generate_plan() that goes on without an active session
generate_plan_session_NoCheck(body, answered, store) ==
    LET token       == request_get(body, K_token, VNone)
        iss         == request_get(body, K_issue, VNone)
        system_info == request_get(body, K_system_info, VDict(<<>>))
        sess        == supabase_get_token(store, token.value, answered)
    IN  Req("generate_plan", body,
            IF token.kind = "raise" THEN "done" ELSE "fetched",
            token.value, iss.value, system_info.value, sess, VNone, VNone,
            IF token.kind = "raise" THEN internal_error ELSE NoResponse,
            IF token.kind = "raise" THEN NoCalls ELSE [NoCalls EXCEPT !.get = 1],
            token.kind = "raise")

\* generate_plan() up to the session check, for whether the fetch is answered
generate_plan_session(body, answered, store) ==
    LET token       == request_get(body, K_token, VNone)
        iss         == request_get(body, K_issue, VNone)
        system_info == request_get(body, K_system_info, VDict(<<>>))
        sess        == supabase_get_token(store, token.value, answered)
        ends(reply, fault, calls, found) ==
            Req("generate_plan", body, "done", token.value, iss.value,
                system_info.value, found, VNone, VNone, reply, calls, fault)
    IN  IF token.kind = "raise"
        THEN ends(internal_error, TRUE, NoCalls, NoSession)
        ELSE IF ~Truthy(token.value) \/ ~Truthy(iss.value)
        THEN ends(Response(400, ErrorDict(S_TokenAndIssue)), FALSE, NoCalls,
                  NoSession)
        ELSE IF ~sess.found \/ ~sess.row.active
        THEN ends(Response(401, ErrorDict(S_InvalidOrInactive)), FALSE,
                  [NoCalls EXCEPT !.get = 1], sess)
        ELSE Req("generate_plan", body, "fetched", token.value, iss.value,
                 system_info.value, sess, VNone, VNone, NoResponse,
                 [NoCalls EXCEPT !.get = 1], FALSE)

\* generate_plan() from the prompt to the sanitized plan, for what the HTTP
\* call to the AI gateway does
generate_plan_payload(req, http) ==
    LET prompt   == build_repair_prompt(req.issue, req.system_info)
        raw_plan == call_mistral_ai(http)
        plan     == sanitize_plan(raw_plan, req.issue)
        called   == [req.calls EXCEPT !.ai = 1]
    IN  IF prompt.kind = "raise"
        THEN [req EXCEPT !.pc = "done", !.reply = internal_error, !.fault = TRUE]
        ELSE IF ErrorIn(raw_plan) = "raise" \/ (ErrorIn(raw_plan) = "yes" /\ raw_plan.t # "dict")
        THEN [req EXCEPT !.pc = "done", !.raw_plan = raw_plan, !.calls = called,
                         !.reply = internal_error, !.fault = TRUE]
        ELSE IF ErrorIn(raw_plan) = "yes"
        THEN [req EXCEPT !.pc = "done", !.raw_plan = raw_plan, !.calls = called,
                         !.reply = Response(500, ai_error_body(raw_plan, req.issue))]
        ELSE IF plan.kind = "raise"
        THEN [req EXCEPT !.pc = "done", !.raw_plan = raw_plan, !.calls = called,
                         !.reply = internal_error, !.fault = TRUE]
        ELSE [req EXCEPT !.pc = "planned", !.raw_plan = raw_plan,
                         !.calls = called, !.plan = plan.value]

\* generate_plan() that repeats a failed update once
generate_plan_persist_Retry(req, outcome, store) ==
    [store |-> supabase_update_session(store, req.token, req.plan, "applied").store,
     req   |-> [req EXCEPT !.pc = "done",
                           !.calls.update = IF outcome = "failed" THEN 2 ELSE 1,
                           !.reply = Response(200, req.plan)]]

\* generate_plan() from the update call to the answer
generate_plan_persist(req, outcome, store) ==
    [store |-> supabase_update_session(store, req.token, req.plan, outcome).store,
     req   |-> [req EXCEPT !.pc = "done", !.calls.update = 1,
                           !.reply = Response(200, req.plan)]]

----------------------------------------------------------------------------
(* Requests, AI answers and sessions that the server is run on.             *)

\* requests handled in one run
MaxReqs == 1

\* clock ticks in one run
MaxTicks == 1

\* the minutes of one tick: enough for a session of the default duration to
\* reach its expires_at
TickMinutes == 2 * DEFAULT_DURATION

T_TokActive == <<"A", "A", "A", "A", "-", "1", "1", "1", "1">>

T_TokInactive == <<"B", "B", "B", "B", "-", "2", "2", "2", "2">>

T_TokExpired == <<"C", "C", "C", "C", "-", "3", "3", "3", "3">>

T_TokUnknown == <<"Z", "Z", "Z", "Z", "-", "9", "9", "9", "9">>

T_uuid1 ==
    << "3", "f", "2", "a", "9", "c", "1", "e", "-", "7", "b", "4", "d", "-",
       "4", "e", "1", "a", "-", "9", "c", "3", "f", "-", "0", "a", "1", "b",
       "2", "c", "3", "d", "4", "e", "5", "f" >>

T_uuid2 ==
    << "0", "0", "0", "0", "0", "0", "0", "0", "-", "0", "0", "0", "0", "-",
       "4", "0", "0", "0", "-", "8", "0", "0", "0", "-", "0", "0", "0", "0",
       "0", "0", "0", "0", "0", "0", "0", "0" >>

T_user == <<"a", "@", "b", ".", "c">>

T_bad == <<"b", "a", "d">>

T_at == <<"@">>

T_Linux == <<"L", "i", "n", "u", "x">>

T_rdp == <<"1", "2", "3", "4", "5", "6">>

A_plan ==
    << "{", "\"", "s", "o", "f", "t", "w", "a", "r", "e", "\"", ":", "\"",
       "C", "h", "r", "o", "m", "e", "\"", ",", "\"", "s", "t", "e", "p",
       "s", "\"", ":", "[", "{", "\"", "d", "e", "s", "c", "r", "i", "p",
       "t", "i", "o", "n", "\"", ":", "\"", "C", "l", "e", "a", "r", " ",
       "c", "a", "c", "h", "e", "\"", ",", "\"", "c", "o", "m", "m", "a",
       "n", "d", "\"", ":", "\"", "\"", "}", "]", "}" >>

A_plan2 ==
    << "{", "\"", "s", "u", "m", "m", "a", "r", "y", "\"", ":", "\"", "R",
       "e", "s", "t", "a", "r", "t", "\"", ",", "\"", "s", "t", "e", "p",
       "s", "\"", ":", "[", "{", "\"", "c", "o", "m", "m", "a", "n", "d",
       "\"", ":", "\"", "r", "e", "b", "o", "o", "t", "\"", ",", "\"", "r",
       "e", "q", "u", "i", "r", "e", "s", "_", "s", "u", "d", "o", "\"", ":",
       "t", "r", "u", "e", "}", "]", ",", "\"", "n", "e", "e", "d", "s", "_",
       "r", "e", "b", "o", "o", "t", "\"", ":", "t", "r", "u", "e", "}" >>

A_fenced_inner ==
    << "{", "\"", "s", "u", "m", "m", "a", "r", "y", "\"", ":", "\"", "s",
       "\"", "}" >>

A_notjson == <<"S", "o", "r", "r", "y">>

A_error ==
    << "{", "\"", "e", "r", "r", "o", "r", "\"", ":", "\"", "q", "u", "o",
       "t", "a", "\"", "}" >>

A_list == <<"[", "1", "]">>

A_int == <<"5">>

A_errstr == <<"\"", "a", "n", " ", "e", "r", "r", "o", "r", "\"">>

A_str == <<"\"", "a", "b", "c", "\"">>

\* a completion that wraps its JSON in a json code fence
A_fenced == S_FenceJson \o <<"\n">> \o A_fenced_inner \o <<"\n">> \o S_Fence

UuidPool == { T_uuid1, T_uuid2 }

\* what the HTTP call to the AI gateway can do
HttpPool ==
    { HttpRaises(S_TimedOut), HttpAnswers(503, VNone), HttpAnswers(200, VNone) }
    \cup { HttpAnswers(200, VStr(text)) :
             text \in { A_plan, A_plan2, A_fenced, A_notjson, A_error, A_list,
                        A_int, A_errstr, A_str } }

\* the tokens that requests name
TokenPool ==
    { Absent, VStr(T_TokActive), VStr(T_TokInactive), VStr(T_TokExpired),
      VStr(T_TokUnknown) }
    \cup { VStr(make_token(u)) : u \in UuidPool }

\* bodies of POST /generate-token; Absent is a request without a JSON body
TokenBodies ==
    { Absent, VList(<<>>) }
    \cup { Build(<< KV(K_email, em), KV(K_issue, VStr(T_slow)), KV(K_minutes, mi) >>) :
             em \in { Absent, VStr(<<>>), VStr(T_bad), VStr(T_user), VInt(5),
                      VList(<<VStr(T_at)>>) },
             mi \in { Absent, VInt(15), VStr(T_abc) } }

\* bodies of POST /generate-plan
PlanBodies ==
    { Absent }
    \cup { Build(<< KV(K_token, tk), KV(K_issue, VStr(T_slow)) >>) : tk \in TokenPool }
    \cup { Build(<< KV(K_token, VStr(T_TokActive)), KV(K_issue, VStr(T_wifi)),
                    KV(K_system_info, si) >>) :
             si \in { VDict(<<KV(K_os, VStr(T_Linux))>>), VStr(T_Linux) } }
    \cup { Build(<< KV(K_token, VStr(T_TokActive)) >>) }

\* bodies of POST /request-human-help
HelpBodies ==
    { Absent }
    \cup { Build(<< KV(K_token, tk), KV(K_email, VStr(T_user)),
                    KV(K_issue, VStr(T_slow)), KV(K_rdp_code, VStr(T_rdp)) >>) :
             tk \in TokenPool }

\* the sessions at the start: an active one, an inactive one, and an active
\* one whose expires_at has passed
InitialSessions ==
    << Row(T_TokActive, VStr(T_user), VStr(T_slow), TRUE, DEFAULT_DURATION, VNone),
       Row(T_TokInactive, VStr(T_user), VStr(T_slow), FALSE, DEFAULT_DURATION, VNone),
       Row(T_TokExpired, VStr(T_user), VStr(T_slow), TRUE, 0 - 1, VNone) >>

----------------------------------------------------------------------------
(* The server: requests are handled by concurrent threads, emails are sent  *)
(* by background threads, and the clock advances.                           *)

Init ==
    /\ raw = VNone /\ issue = VNone /\ pc = "idle" /\ result = NotCalled
    /\ sessions = InitialSessions
    /\ reqs = <<>>
    /\ emails = <<>>
    /\ now = 0

\* POST /generate-token
GenerateToken ==
    /\ Len(reqs) < MaxReqs
    /\ \E body \in TokenBodies, uuid_text \in UuidPool, outcome \in StoreOutcomes :
         LET run == generate_token(body, uuid_text, outcome, sessions, now)
         IN  /\ reqs' = Append(reqs, Finished("generate_token", body, run))
             /\ sessions' = run.store
             /\ emails' = emails \o run.mail
    /\ UNCHANGED now
    /\ UNCHANGED sanVars

\* POST /request-human-help
RequestHumanHelp ==
    /\ Len(reqs) < MaxReqs
    /\ \E body \in HelpBodies, answered \in BOOLEAN :
         LET run == request_human_help(body, answered, sessions)
         IN  /\ reqs' = Append(reqs, Finished("request_human_help", body, run))
             /\ emails' = emails \o run.mail
    /\ UNCHANGED <<sessions, now>>
    /\ UNCHANGED sanVars

\* POST /generate-plan arrives and is handled up to the session check
PlanSession ==
    /\ Len(reqs) < MaxReqs
    /\ \E body \in PlanBodies, answered \in BOOLEAN :
         reqs' = Append(reqs, generate_plan_session(body, answered, sessions))
    /\ UNCHANGED <<sessions, emails, now>>
    /\ UNCHANGED sanVars

\* a generate-plan request calls the AI gateway and sanitizes the payload
PlanPayload ==
    /\ \E i \in 1..Len(reqs), http \in HttpPool :
         /\ reqs[i].pc = "fetched"
         /\ reqs' = [reqs EXCEPT ![i] = generate_plan_payload(reqs[i], http)]
    /\ UNCHANGED <<sessions, emails, now>>
    /\ UNCHANGED sanVars

\* a generate-plan request stores its plan and answers
PlanPersist ==
    /\ \E i \in 1..Len(reqs), outcome \in StoreOutcomes :
         /\ reqs[i].pc = "planned"
         /\ LET step == generate_plan_persist(reqs[i], outcome, sessions)
            IN  /\ reqs' = [reqs EXCEPT ![i] = step.req]
                /\ sessions' = step.store
    /\ UNCHANGED <<emails, now>>
    /\ UNCHANGED sanVars

\* a send whose failure is reported back into the answer of the request
MailDelivery_Reported ==
    /\ \E i \in 1..Len(emails), state \in {"sent", "failed"} :
         /\ emails[i].state = "started"
         /\ emails' = [emails EXCEPT ![i].state = state]
         /\ reqs' = [k \in 1..Len(reqs) |->
                       IF state = "failed" /\ reqs[k].calls.mail = 1
                       THEN [reqs[k] EXCEPT !.reply = internal_error]
                       ELSE reqs[k]]
    /\ UNCHANGED <<sessions, now>>
    /\ UNCHANGED sanVars

\* a background thread ends its send_email_mailgun call
MailDelivery ==
    /\ \E i \in 1..Len(emails), state \in {"sent", "failed"} :
         /\ emails[i].state = "started"
         /\ emails' = [emails EXCEPT ![i].state = state]
    /\ UNCHANGED <<sessions, reqs, now>>
    /\ UNCHANGED sanVars

\* time passes
Tick ==
    /\ now < MaxTicks * TickMinutes
    /\ now' = now + TickMinutes
    /\ UNCHANGED <<sessions, reqs, emails>>
    /\ UNCHANGED sanVars

Next ==
    \/ GenerateToken
    \/ RequestHumanHelp
    \/ PlanSession
    \/ PlanPayload
    \/ PlanPersist
    \/ MailDelivery
    \/ Tick

Spec == Init /\ [][Next]_vars

----------------------------------------------------------------------------
(* Claims about the handlers.                                               *)

\* the session that a token names in the store, None when it names none
SessionOf(token) == supabase_get_token(sessions, token, TRUE)

\* a finished request of the given handler
Answered(req, handler) == req.handler = handler /\ req.pc = "done"

\* C13: POST /generate-plan answers 401, and generates no plan, whenever the
\* token of the request is missing, names no session, names an inactive
\* session, or names a session whose expires_at is in the past.
C13_RejectedWith401 ==
    [][PlanSession =>
        LET req   == reqs'[Len(reqs')]
            named == SessionOf(req.token)
        IN  (/\ req.body.t = "dict"
             /\ \/ Field(req.body, K_token) = Absent
                \/ ~named.found
                \/ ~named.row.active
                \/ named.row.expires_at < now)
            => /\ req.pc = "done"
               /\ req.reply.status = 401
               /\ req.calls.ai = 0]_vars

\* C14: whenever POST /generate-plan answers 200 with plan P, the session of
\* the request's token holds P as its plan when the response is produced,
\* also when the update call fails.
C14_ReturnedPlanIsStored ==
    [][PlanPersist =>
        \A i \in 1..Len(reqs) :
            (reqs[i].pc = "planned" /\ reqs'[i].pc = "done" /\ reqs'[i].reply.status = 200)
            => LET stored == supabase_get_token(sessions', reqs'[i].token, TRUE)
               IN  stored.found /\ stored.row.plan = reqs'[i].reply.body]_vars

\* an email field that is absent, not a string, or a string without "@"
InvalidEmail(email) ==
    email.t # "str" \/ ~IsSubstring(T_at, email.s)

\* C15: POST /generate-token answers 400 for every request whose email is
\* invalid, whatever its other fields are, and then inserts no session and
\* sends no email.
C15_InvalidEmailGets400 ==
    \A i \in 1..Len(reqs) :
        (/\ Answered(reqs[i], "generate_token")
         /\ reqs[i].body.t = "dict"
         /\ InvalidEmail(Field(reqs[i].body, K_email)))
        => /\ reqs[i].reply.status = 400
           /\ reqs[i].calls.insert = 0
           /\ reqs[i].calls.mail = 0

\* the token names a session in the store and that session is active
NamesActiveSession(token) == SessionOf(token).found /\ SessionOf(token).row.active

\* the help emails handed to background threads so far
HelpMails == {j \in 1..Len(emails) : emails[j].kind = "help"}

\* the help requests that were answered 200
HelpedReqs ==
    {i \in 1..Len(reqs) :
        Answered(reqs[i], "request_human_help") /\ reqs[i].reply.status = 200}

\* C16 as stated: POST /request-human-help answers 401 and dispatches no
\* email whenever the token names no session or an inactive session, and
\* otherwise dispatches one email and answers 200.
C16_StoredSessionDecides ==
    \A i \in 1..Len(reqs) :
        (Answered(reqs[i], "request_human_help") /\ reqs[i].body.t = "dict")
        => IF NamesActiveSession(reqs[i].token)
           THEN reqs[i].reply.status = 200 /\ reqs[i].calls.mail = 1
           ELSE reqs[i].reply.status = 401 /\ reqs[i].calls.mail = 0

\* C16, amended: a help request with a mapping body is answered 401 with no
\* email when the session fetch returns no session (the token names none or
\* the fetch fails) or an inactive one; when the fetch returns an active
\* session, exactly one email goes to the operator address and the answer is
\* 200 with status "sent".
C16_FetchedSessionDecides ==
    /\ \A i \in 1..Len(reqs) :
          (Answered(reqs[i], "request_human_help") /\ reqs[i].body.t = "dict")
          => /\ reqs[i].sess.found => SessionOf(reqs[i].token).found
             /\ ~NamesActiveSession(reqs[i].token) => reqs[i].reply.status = 401
             /\ IF reqs[i].sess.found /\ reqs[i].sess.row.active
                THEN /\ reqs[i].reply = Response(200, VDict(<<KV(K_status, VStr(S_sent))>>))
                     /\ reqs[i].calls.mail = 1
                ELSE /\ reqs[i].reply.status = 401
                     /\ reqs[i].calls.mail = 0
    /\ Cardinality(HelpMails) = Cardinality(HelpedReqs)
    /\ \A j \in HelpMails : emails[j].to = VStr(TECHNICIAN_EMAIL)

\* a help request for an active session has been answered and its email is
\* with a background thread
C16_Witness ==
    \E i \in HelpedReqs :
        /\ NamesActiveSession(reqs[i].token)
        /\ \E j \in HelpMails : emails[j].token = PyStr(reqs[i].token)

\* a generate-plan request to which the AI adapter has returned a mapping
\* with the key error
AdapterFailed(req) ==
    /\ req.handler = "generate_plan"
    /\ req.calls.ai = 1
    /\ req.raw_plan.t = "dict"
    /\ HasKey(req.raw_plan, K_error)

\* C17: when the AI adapter returns a mapping with key error and value e, the
\* body of the generate-plan response is a repair plan with the issue of the
\* request, summary "AI service error", exactly one step whose description
\* is e and whose command is a non-empty text, 5 minutes and no reboot.
C17_AdapterErrorGivesPlan ==
    \A i \in 1..Len(reqs) :
        AdapterFailed(reqs[i])
        => LET body  == reqs[i].reply.body
               steps == Field(body, K_steps)
           IN  /\ reqs[i].pc = "done"
               /\ body.t = "dict"
               /\ Len(body.d) = 6
               /\ Field(body, K_software).t = "str"
               /\ Field(body, K_issue) = Field(reqs[i].body, K_issue)
               /\ Field(body, K_summary) = VStr(Txt_ServiceError)
               /\ steps.t = "list"
               /\ Len(steps.l) = 1
               /\ steps.l[1].t = "dict"
               /\ Field(steps.l[1], K_description) = Field(reqs[i].raw_plan, K_error)
               /\ NonEmptyText(Field(steps.l[1], K_command))
               /\ Field(steps.l[1], K_requires_sudo) = VBool(FALSE)
               /\ Field(body, K_estimated_time_minutes) = VInt(5)
               /\ Field(body, K_needs_reboot) = VBool(FALSE)

\* the gateway has answered 503 and the request has been answered
C17_Witness ==
    \E i \in 1..Len(reqs) :
        /\ AdapterFailed(reqs[i])
        /\ Field(reqs[i].raw_plan, K_error) = VStr(S_MistralError \o <<"5", "0", "3">>)
        /\ reqs[i].reply.status = 500

\* the uppercase letters and the digits
UpperAlnum ==
    { "A", "B", "C", "D", "E", "F", "G", "H", "I", "J", "K", "L", "M", "N",
      "O", "P", "Q", "R", "S", "T", "U", "V", "W", "X", "Y", "Z",
      "0", "1", "2", "3", "4", "5", "6", "7", "8", "9" }

\* XXXX-XXXX: two groups of four uppercase alphanumeric characters and one
\* hyphen between them
TokenFormat(text) ==
    /\ Len(text) = 9
    /\ text[5] = "-"
    /\ \A k \in (1..9) \ {5} : text[k] \in UpperAlnum

\* the token requests that were answered 201
IssuedReqs ==
    {i \in 1..Len(reqs) :
        Answered(reqs[i], "generate_token") /\ reqs[i].reply.status = 201}

\* C18: every token issued by POST /generate-token is XXXX-XXXX in uppercase
\* alphanumeric characters, and the token of the inserted session is the
\* token returned in the response and the token placed in the token email.
C18_OneWellFormedToken ==
    /\ \A i \in IssuedReqs :
          LET returned == Field(reqs[i].reply.body, K_token)
          IN  /\ returned.t = "str"
              /\ TokenFormat(returned.s)
              /\ \E k \in (Len(InitialSessions) + 1)..Len(sessions) :
                    /\ sessions[k].token = returned.s
                    /\ sessions[k].email = Field(reqs[i].body, K_email)
              /\ \E j \in 1..Len(emails) :
                    /\ emails[j].kind = "token"
                    /\ emails[j].token = returned.s
                    /\ emails[j].to = Field(reqs[i].body, K_email)
    /\ \A k \in (Len(InitialSessions) + 1)..Len(sessions) :
          TokenFormat(sessions[k].token)
    /\ \A j \in 1..Len(emails) :
          emails[j].kind = "token"
          => /\ TokenFormat(emails[j].token)
             /\ \E k \in 1..Len(sessions) : sessions[k].token = emails[j].token

\* a token with letters has been issued, stored and handed to the email thread
C18_Witness ==
    \E i \in IssuedReqs :
        /\ Field(reqs[i].reply.body, K_token) = VStr(<<"3", "F", "2", "A", "-", "9", "C", "1", "E">>)
        /\ Len(sessions) = Len(InitialSessions) + 1
        /\ Len(emails) = 1

Txt_InternalServerError ==
    << "I", "n", "t", "e", "r", "n", "a", "l", " ", "s", "e", "r", "v", "e",
       "r", " ", "e", "r", "r", "o", "r" >>

\* the request met something that raises: no JSON mapping as body, an email
\* or minutes or system_info of a type the handler cannot use, or an AI
\* payload that is a number or a list
Faulted(req) ==
    \/ req.fault
    \/ req.body.t # "dict"
    \/ /\ req.handler = "generate_token"
       /\ \/ Field(req.body, K_email).t = "int"
          \/ Field(req.body, K_minutes) = VStr(T_abc)
    \/ /\ req.handler = "generate_plan"
       /\ req.pc = "done"
       /\ req.sess.found /\ req.sess.row.active
       /\ Field(req.body, K_system_info).t = "str"
    \/ /\ req.handler = "generate_plan"
       /\ req.calls.ai = 1
       /\ req.raw_plan.t \in {"int", "list"}

\* C19: in the three handlers every fault raised while a request is handled
\* ends in a 500 response whose body is only {"error": "Internal server
\* error"}; every finished request has a response of the handler.
C19_FaultsGiveOpaque500 ==
    \A i \in 1..Len(reqs) :
        /\ Faulted(reqs[i])
           => /\ reqs[i].pc = "done"
              /\ reqs[i].reply =
                   Response(500, VDict(<<KV(K_error, VStr(Txt_InternalServerError))>>))
        /\ reqs[i].pc = "done" => reqs[i].reply.status \in {200, 201, 400, 401, 500}

\* the AI payload was a number and the request has been answered
C19_Witness ==
    \E i \in 1..Len(reqs) :
        /\ reqs[i].handler = "generate_plan"
        /\ reqs[i].raw_plan.t = "int"
        /\ reqs[i].fault
        /\ reqs[i].reply.status = 500

----------------------------------------------------------------------------
(* Further claims about sanitize_plan.                                      *)

\* an int that is not a bool
IsInteger(v) == v.t = "int"

\* C21: every plan that sanitize_plan returns is well-typed whatever the
\* types of the raw fields: software, issue and summary are strings,
\* estimated_time_minutes is an integer, needs_reboot is a boolean, and in
\* each step description and command are strings and requires_sudo is a
\* boolean.
C21_WellTyped ==
    ReturnedPlan
    => /\ Field(result.value, K_software).t = "str"
       /\ Field(result.value, K_issue).t = "str"
       /\ Field(result.value, K_summary).t = "str"
       /\ IsInteger(Field(result.value, K_estimated_time_minutes))
       /\ Field(result.value, K_needs_reboot).t = "bool"
       /\ \A k \in 1..Len(OutSteps) :
            /\ Field(OutSteps[k], K_description).t = "str"
            /\ Field(OutSteps[k], K_command).t = "str"
            /\ Field(OutSteps[k], K_requires_sudo).t = "bool"

----------------------------------------------------------------------------
(* Concurrent generate-plan requests for one token: each request is handled *)
(* by its own thread, and the threads share nothing but the session store.  *)

\* generate-plan requests in one run
MaxPlanReqs == 2

\* the requests of this run name the active session
ConcurrentBodies ==
    { Build(<< KV(K_token, VStr(T_TokActive)), KV(K_issue, VStr(T_slow)) >>) }

\* the AI gateway answers one of two plans, refuses, or times out
ConcurrentHttp ==
    { HttpAnswers(200, VStr(A_plan)), HttpAnswers(200, VStr(A_plan2)),
      HttpAnswers(503, VNone), HttpRaises(S_TimedOut) }

InitConcurrent ==
    /\ raw = VNone /\ issue = VNone /\ pc = "idle" /\ result = NotCalled
    /\ sessions = InitialSessions
    /\ reqs = <<>>
    /\ emails = <<>>
    /\ now = 0

\* POST /generate-plan arrives, whatever the other requests are doing
ConcurrentPlanSession ==
    /\ Len(reqs) < MaxPlanReqs
    /\ \E body \in ConcurrentBodies, answered \in BOOLEAN :
         reqs' = Append(reqs, generate_plan_session(body, answered, sessions))
    /\ UNCHANGED <<sessions, emails, now>>
    /\ UNCHANGED sanVars

\* one of the requests calls the AI gateway and sanitizes the payload
ConcurrentPlanPayload ==
    /\ \E i \in 1..Len(reqs), http \in ConcurrentHttp :
         /\ reqs[i].pc = "fetched"
         /\ reqs' = [reqs EXCEPT ![i] = generate_plan_payload(reqs[i], http)]
    /\ UNCHANGED <<sessions, emails, now>>
    /\ UNCHANGED sanVars

NextConcurrent ==
    \/ ConcurrentPlanSession
    \/ ConcurrentPlanPayload
    \/ PlanPersist

SpecConcurrent == InitConcurrent /\ [][NextConcurrent]_vars

\* the plan that a store holds for a token
StoredPlan(store, token) == supabase_get_token(store, token, TRUE).row.plan

\* C23: concurrent generate-plan requests for one active token are not
\* serialized.  No request is blocked, rejected or retried because of
\* another: a request makes each external call at most once, is answered 401
\* only when its own fetch returned no active session, and once it has its
\* plan it answers 200 with that plan whatever the session holds by then; its
\* update, when applied, replaces whatever plan is stored, and leaves the
\* store alone when it fails.
C23_NotSerialized ==
    \A i \in 1..Len(reqs) :
        reqs[i].handler = "generate_plan"
        => /\ reqs[i].calls.get <= 1 /\ reqs[i].calls.ai <= 1 /\ reqs[i].calls.update <= 1
           /\ (reqs[i].pc = "done" /\ reqs[i].reply.status = 401)
              => ~(reqs[i].sess.found /\ reqs[i].sess.row.active)
           /\ reqs[i].pc = "planned"
              => \A outcome \in StoreOutcomes :
                   LET step == generate_plan_persist(reqs[i], outcome, sessions)
                   IN  /\ step.req.reply = Response(200, reqs[i].plan)
                       /\ outcome # "failed"
                          => StoredPlan(step.store, reqs[i].token) = reqs[i].plan
                       /\ outcome = "failed" => step.store = sessions

\* two requests for one token were both in flight before either stored a
\* plan, both were answered 200, with different plans, and the session holds
\* the plan of one of them only
C23_Witness ==
    \E i, j \in 1..Len(reqs) :
        /\ i # j
        /\ Answered(reqs[i], "generate_plan") /\ Answered(reqs[j], "generate_plan")
        /\ reqs[i].token = reqs[j].token
        /\ reqs[i].reply.status = 200 /\ reqs[j].reply.status = 200
        /\ reqs[i].sess.row.plan = VNone /\ reqs[j].sess.row.plan = VNone
        /\ reqs[i].reply.body # reqs[j].reply.body
        /\ StoredPlan(sessions, reqs[j].token) = reqs[j].reply.body

----------------------------------------------------------------------------
(* Further claims about the handlers.                                       *)

\* C24: the responses of POST /generate-token and POST /request-human-help
\* are produced without waiting for the background send: in the step that
\* hands an email to a thread the request is answered (201 or 200) while the
\* send has only started; and the end of a send, success or failure, changes
\* neither a response nor a session.
C24_SendNeverReportsBack ==
    [][/\ Len(emails') > Len(emails)
          => /\ Len(emails') = Len(emails) + 1
             /\ emails'[Len(emails')].state = "started"
             /\ reqs'[Len(reqs')].pc = "done"
             /\ reqs'[Len(reqs')].calls.mail = 1
             /\ reqs'[Len(reqs')].reply.status \in {200, 201}
       /\ (\E j \in 1..Len(emails) : emails'[j].state # emails[j].state)
          => /\ reqs' = reqs
             /\ sessions' = sessions]_vars

\* a token request was answered 201 and the send of its email has failed
C24_Witness ==
    \E i \in IssuedReqs, j \in 1..Len(emails) :
        /\ emails[j].kind = "token"
        /\ emails[j].token = Field(reqs[i].reply.body, K_token).s
        /\ emails[j].state = "failed"
        /\ reqs[i].calls.mail = 1

\* the number of calls of one kind that the requests have made
RECURSIVE SumCalls(_, _)
SumCalls(rs, kind) ==
    IF rs = <<>> THEN 0
    ELSE rs[1].calls[kind] + SumCalls(Tail(rs), kind)

\* C25: within one request each external call (session fetch, insert,
\* update, AI completion, email send) is attempted at most once, and a
\* failed attempt is final: an answered request takes no further step, every
\* email belongs to one send that a request started, every inserted session
\* to one insert, and a send that has ended is not repeated.
C25_AttemptedOnce ==
    [][/\ \A i \in 1..Len(reqs') :
            \A kind \in {"get", "insert", "update", "ai", "mail"} :
                reqs'[i].calls[kind] <= 1
       /\ \A i \in 1..Len(reqs) :
            /\ reqs[i].pc = "done" => reqs'[i] = reqs[i]
            /\ \A kind \in {"get", "insert", "update", "ai", "mail"} :
                 reqs'[i].calls[kind] >= reqs[i].calls[kind]
       /\ Len(emails') = SumCalls(reqs', "mail")
       /\ Len(sessions') - Len(InitialSessions) <= SumCalls(reqs', "insert")
       /\ \A j \in 1..Len(emails) :
            emails[j].state # "started" => emails'[j] = emails[j]]_vars

\* a request whose update was attempted after its fetch and its AI call, each
\* made once
C25_Witness ==
    \E i \in 1..Len(reqs) :
        /\ Answered(reqs[i], "generate_plan")
        /\ reqs[i].calls = [NoCalls EXCEPT !.get = 1, !.ai = 1, !.update = 1]
        /\ reqs[i].reply.status = 200
        /\ StoredPlan(sessions, reqs[i].token) # reqs[i].reply.body

Txt_InvalidOrInactive ==
    << "I", "n", "v", "a", "l", "i", "d", " ", "o", "r", " ", "i", "n", "a",
       "c", "t", "i", "v", "e", " ", "s", "e", "s", "s", "i", "o", "n" >>

Txt_InvalidSession ==
    << "I", "n", "v", "a", "l", "i", "d", " ", "s", "e", "s", "s", "i", "o",
       "n" >>

\* C26: the session-store adapter never propagates a fault.  A fetch that
\* fails, or finds nothing, returns None; an insert or update that is not
\* answered with success returns False.  So a generate-plan or help request
\* whose fetch returned None is answered the same 401, with no exception
\* caught, whether the store failed or the token names no session.
C26_StoreFaultsAreAbsence ==
    \A i \in 1..Len(reqs) :
        /\ supabase_get_token(sessions, reqs[i].token, FALSE) = NoSession
        /\ supabase_get_token(sessions, VStr(T_TokUnknown), TRUE) = NoSession
        /\ \A outcome \in {"failed", "lost"} :
             /\ ~supabase_update_session(sessions, reqs[i].token, VNone, outcome).ret
             /\ ~supabase_insert_session(sessions, sessions[1], outcome).ret
        /\ (reqs[i].pc = "done" /\ reqs[i].calls.get = 1 /\ ~reqs[i].sess.found)
           => /\ ~reqs[i].fault
              /\ reqs[i].handler = "generate_plan"
                 => reqs[i].reply = Response(401, ErrorDict(Txt_InvalidOrInactive))
              /\ reqs[i].handler = "request_human_help"
                 => reqs[i].reply = Response(401, ErrorDict(Txt_InvalidSession))

\* the store holds an active session for the token of a request, the fetch
\* failed, and the request was answered 401
C26_Witness ==
    \E i \in 1..Len(reqs) :
        /\ reqs[i].handler = "generate_plan"
        /\ reqs[i].pc = "done"
        /\ NamesActiveSession(reqs[i].token)
        /\ ~reqs[i].sess.found
        /\ reqs[i].reply.status = 401

----------------------------------------------------------------------------
(* One call of call_mistral_ai on each thing that the HTTP call can do.      *)

\* the completion texts without a fence
GatewayTexts ==
    TextPool \cup { A_plan, A_plan2, A_error, A_list, A_int, A_errstr, A_str }

\* a text as the gateway may wrap it
Wrappings(text) ==
    { text,
      <<" ", "\n">> \o text \o <<"\n">>,
      S_FenceJson \o <<"\n">> \o text \o <<"\n">> \o S_Fence,
      S_Fence \o <<"\n">> \o text \o <<"\n">> \o S_Fence,
      <<"O", "K", ":", " ">> \o S_FenceJson \o text \o S_Fence \o <<" ", "b", "y", "e">>,
      S_FenceJson \o text }

GatewayPool ==
    { HttpRaises(S_TimedOut), HttpRaises(<<>>), HttpAnswers(200, VNone) }
    \cup { HttpAnswers(status, VStr(A_plan)) : status \in {201, 429, 500, 503} }
    \cup { HttpAnswers(200, VStr(wrapped)) :
             wrapped \in UNION { Wrappings(text) : text \in GatewayTexts } }

\* a call of call_mistral_ai: what the HTTP call did and what was returned
GatewayCall(http, payload) ==
    [handler |-> "call_mistral_ai", http |-> http, payload |-> payload]

InitGateway ==
    /\ raw = VNone /\ issue = VNone /\ pc = "idle" /\ result = NotCalled
    /\ sessions = <<>>
    /\ reqs = <<>>
    /\ emails = <<>>
    /\ now = 0

\* raw_plan = call_mistral_ai(prompt)
CallGateway ==
    /\ reqs = <<>>
    /\ \E http \in GatewayPool :
         reqs' = <<GatewayCall(http, call_mistral_ai(http))>>
    /\ UNCHANGED <<sessions, emails, now>>
    /\ UNCHANGED sanVars

NextGateway == CallGateway

SpecGateway == InitGateway /\ [][NextGateway]_vars

\* the completion text after the fence is stripped
CompletionText(http) == strip(StripFence(strip(http.content.s)))

\* a mapping that carries the key error
HasError(v) == v.t = "dict" /\ HasKey(v, K_error)

\* the HTTP call raised, answered another status than 200, or gave no text
NoCompletion(http) ==
    http.kind = "exception" \/ http.status # 200 \/ http.content.t # "str"

\* C27 as stated: call_mistral_ai returns a mapping with the key error on a
\* transport exception, a non-200 status, and a completion text that is
\* missing, empty or not JSON after fence stripping; in every other case it
\* returns the parsed payload.
C27_NotJsonGivesError ==
    \A i \in 1..Len(reqs) :
        reqs[i].handler = "call_mistral_ai"
        => IF NoCompletion(reqs[i].http) \/ ~IsValidJson(CompletionText(reqs[i].http))
           THEN HasError(reqs[i].payload)
           ELSE reqs[i].payload = json_loads(CompletionText(reqs[i].http)).v

\* C27, amended: call_mistral_ai returns a mapping with the key error on a
\* transport exception, a non-200 status, a missing completion text, and a
\* text that json.loads rejects after fence stripping (an empty text is one);
\* in every other case it returns what json.loads made of the text.
C27_RejectedTextGivesError ==
    \A i \in 1..Len(reqs) :
        reqs[i].handler = "call_mistral_ai"
        => IF NoCompletion(reqs[i].http) \/ ~json_loads(CompletionText(reqs[i].http)).ok
           THEN HasError(reqs[i].payload)
           ELSE reqs[i].payload = json_loads(CompletionText(reqs[i].http)).v

\* the gateway answered a fenced text that is not JSON, and the adapter
\* returned the parse error
C27_Witness ==
    \E i \in 1..Len(reqs) :
        /\ reqs[i].handler = "call_mistral_ai"
        /\ reqs[i].http.status = 200
        /\ reqs[i].http.content.t = "str"
        /\ StartsAt(reqs[i].http.content.s, 1, S_FenceJson)
        /\ CompletionText(reqs[i].http) = <<"n", "o", "t", " ", "j", "s", "o", "n">>
        /\ reqs[i].payload = ErrorDict(Txt_FailedToParse)

----------------------------------------------------------------------------
(* Claims about the order of the calls of a handler.                        *)

\* C28: POST /generate-plan calls the AI gateway only after the session
\* store has returned an existing, active session for the token of the
\* request; a request that ends in 400 or 401 has made no AI call and no
\* session update.
C28_GatewayAfterSession ==
    \A i \in 1..Len(reqs) :
        reqs[i].handler = "generate_plan"
        => /\ (reqs[i].calls.ai = 1 \/ reqs[i].calls.update = 1)
              => /\ reqs[i].calls.get = 1
                 /\ reqs[i].sess.found
                 /\ reqs[i].sess.row.active
                 /\ reqs[i].sess.row.token = PyStr(reqs[i].token)
           /\ (reqs[i].pc = "done" /\ reqs[i].reply.status \in {400, 401})
              => /\ reqs[i].calls.ai = 0
                 /\ reqs[i].calls.update = 0
                 /\ reqs[i].raw_plan = VNone
                 /\ reqs[i].plan = VNone

\* a request naming the inactive session was answered 401 after its fetch
C28_Witness ==
    \E i \in 1..Len(reqs) :
        /\ Answered(reqs[i], "generate_plan")
        /\ reqs[i].reply.status = 401
        /\ reqs[i].sess.found /\ ~reqs[i].sess.row.active
        /\ reqs[i].calls = [NoCalls EXCEPT !.get = 1]


\* the token mails
TokenMails(mails) == {j \in 1..Len(mails) : mails[j].kind = "token"}

\* the request that a step has just answered, when it answered one
JustAnswered(handler) ==
    /\ Len(reqs') = Len(reqs) + 1
    /\ reqs'[Len(reqs')].handler = handler
    /\ reqs'[Len(reqs')].pc = "done"

\* C29: POST /generate-token starts the token email only after the session
\* insert has reported success; when the insert fails the answer is 500 and
\* no email is dispatched, so that every token mailed has a session record.
C29_MailAfterInsert ==
    [][ /\ JustAnswered("generate_token")
           => LET req == reqs'[Len(reqs')]
              IN  /\ emails' # emails
                     => /\ req.calls.insert = 1
                        /\ req.reply.status = 201
                        /\ \E k \in (Len(sessions) + 1)..Len(sessions') :
                              sessions'[k].token = req.token.s
                        /\ emails' = Append(emails,
                               Mail(Field(req.body, K_email), "token", req.token.s))
                  /\ (req.calls.insert = 1 /\ req.reply.status # 201)
                     => /\ req.reply = Response(500, ErrorDict(S_FailedToCreate))
                        /\ req.calls.mail = 0
                        /\ emails' = emails
        /\ \A j \in TokenMails(emails') :
              \E k \in 1..Len(sessions') : sessions'[k].token = emails'[j].token
      ]_vars

\* a token request whose insert failed was answered 500 and nothing was mailed
C29_Witness ==
    \E i \in 1..Len(reqs) :
        /\ Answered(reqs[i], "generate_token")
        /\ reqs[i].calls.insert = 1
        /\ reqs[i].reply = Response(500, ErrorDict(S_FailedToCreate))
        /\ emails = <<>>
        /\ \A k \in 1..Len(sessions) : sessions[k].token # reqs[i].token.s


\* the generate-plan requests that a step has moved
MovedPlans ==
    {i \in 1..Len(reqs') :
        /\ reqs'[i].handler = "generate_plan"
        /\ (i > Len(reqs) \/ reqs'[i] # reqs[i])}

\* C30: when the AI gateway reports a failure, POST /generate-plan makes no
\* session-store update and every session is as it was; a generate-plan that
\* succeeds changes nothing but the plan field of the session of its token,
\* which becomes the whole new plan.
C30_OnlyPlanChanges ==
    [][ \A i \in MovedPlans :
           /\ HasError(reqs'[i].raw_plan)
              => /\ reqs'[i].pc = "done"
                 /\ reqs'[i].reply.status = 500
           /\ ~(reqs'[i].pc = "done" /\ reqs'[i].reply.status = 200)
              => /\ reqs'[i].calls.update = 0
                 /\ sessions' = sessions
           /\ (reqs'[i].pc = "done" /\ reqs'[i].reply.status = 200)
              => /\ reqs'[i].calls.update = 1
                 /\ Len(sessions') = Len(sessions)
                 /\ \A k \in 1..Len(sessions) :
                       \/ sessions'[k] = sessions[k]
                       \/ /\ sessions[k].token = PyStr(reqs'[i].token)
                          /\ sessions'[k] =
                               [sessions[k] EXCEPT !.plan = reqs'[i].reply.body]
      ]_vars

\* the session holds the plan of one request, all its other fields are as
\* they were at the start, and another request for the same token ended in
\* the AI failure answer without an update
C30_Witness ==
    \E i, j \in 1..Len(reqs) :
        /\ Answered(reqs[i], "generate_plan") /\ Answered(reqs[j], "generate_plan")
        /\ reqs[i].token = reqs[j].token
        /\ reqs[i].reply.status = 200
        /\ HasError(reqs[j].raw_plan)
        /\ reqs[j].reply.status = 500 /\ reqs[j].calls.update = 0
        /\ \E k \in 1..Len(sessions) :
              /\ sessions[k].token = PyStr(reqs[i].token)
              /\ InitialSessions[k].plan = VNone
              /\ sessions[k] =
                   [InitialSessions[k] EXCEPT !.plan = reqs[i].reply.body]

====
